---- MODULE Spec2Model ----
(***************************************************************************)
(* Model of the queue-network simulation engine of                         *)
(* src/src/components/layout/Header.jsx: the EventStack (a doubly linked   *)
(* list of Event objects kept in time order), generateRandomSample and     *)
(* the event loop of simulateQueueNetwork.                                 *)
(*                                                                         *)
(* Event objects live in an arena: eventStack.ev is the sequence of all    *)
(* Event objects constructed so far, an object's identity is its index,    *)
(* and NULL (0) is JavaScript's null.  Simulated time is counted in ticks  *)
(* of 0.005 time units, so that updateInterval = 0.01 is 2 ticks.          *)
(***************************************************************************)
EXTENDS Integers, Sequences, FiniteSets, TLC

\* ------------------------------------------------------------------ bounds
\* Event objects constructed in one behaviour of the EventStack API.
MaxStackEvents == 4
\* Largest time stamp given to an event inserted through the EventStack API.
MaxEventTime == 2

NULL == 0

\* ------------------------------------------------------------ class Event
\* new Event(time, eventType, jobId, nodeId): both links start null.
Event(time, eventType, jobId, nodeId) ==
  [time |-> time, eventType |-> eventType, jobId |-> jobId, nodeId |-> nodeId,
   nextEvent |-> NULL, prevEvent |-> NULL]

\* ------------------------------------------------------- class EventStack
\* new EventStack(): head = tail = null.
NewEventStack == [head |-> NULL, tail |-> NULL, ev |-> << >>]

\* `new Event(...)` for a stack's arena: the object gets the next identity.
NewEvent(es, e) == [es EXCEPT !.ev = Append(es.ev, e)]

isEmpty(es) == es.head = NULL

\* The loop `while (current && current.time <= event.time) current = current.nextEvent`.
RECURSIVE ScanLE(_, _, _)
ScanLE(es, current, t) ==
  IF current # NULL /\ es.ev[current].time <= t
    THEN ScanLE(es, es.ev[current].nextEvent, t)
    ELSE current

\* A plausible slip: `<` for `<=` in the scan, which puts an event before
\* the pending events of the same time.
RECURSIVE ScanLT(_, _, _)
ScanLT(es, current, t) ==
  IF current # NULL /\ es.ev[current].time < t
    THEN ScanLT(es, es.ev[current].nextEvent, t)
    ELSE current

\* insertEvent(event), for the Event object of identity e.
InsertAt(es, e, current) ==
  IF current = NULL
    THEN \* insert at the end
         [es EXCEPT !.ev[es.tail].nextEvent = e,
                    !.ev[e].prevEvent = es.tail,
                    !.tail = e]
    ELSE IF es.ev[current].prevEvent = NULL
    THEN \* insert at the beginning
         [es EXCEPT !.ev[e].nextEvent = es.head,
                    !.ev[es.head].prevEvent = e,
                    !.head = e]
    ELSE \* insert in the middle
         LET prevNode == es.ev[current].prevEvent IN
         [es EXCEPT !.ev[prevNode].nextEvent = e,
                    !.ev[e].prevEvent = prevNode,
                    !.ev[e].nextEvent = current,
                    !.ev[current].prevEvent = e]

\* Plausible slips in insertEvent: no scan at all, a strict comparison in the
\* scan, and a forgotten `this.tail.nextEvent = event`.
insertEvent_AtHead(es, e) ==
  IF es.head = NULL
    THEN [es EXCEPT !.head = e, !.tail = e]
    ELSE InsertAt(es, e, es.head)

insertEvent_Unstable(es, e) ==
  IF es.head = NULL
    THEN [es EXCEPT !.head = e, !.tail = e]
    ELSE InsertAt(es, e, ScanLT(es, es.head, es.ev[e].time))

insertEvent_DropTail(es, e) ==
  IF es.head = NULL
    THEN [es EXCEPT !.head = e, !.tail = e]
    ELSE LET current == ScanLE(es, es.head, es.ev[e].time) IN
         IF current = NULL
           THEN [es EXCEPT !.ev[e].prevEvent = es.tail, !.tail = e]
           ELSE InsertAt(es, e, current)

insertEvent(es, e) ==
  IF es.head = NULL
    THEN [es EXCEPT !.head = e, !.tail = e]
    ELSE InsertAt(es, e, ScanLE(es, es.head, es.ev[e].time))

\* popEvent(): the returned event (NULL for null) and the stack afterwards.
\* The popped object keeps its nextEvent link, as in the code.
\* A plausible slip: the `else this.tail = null` branch forgotten.
popEvent_KeepTail(es) ==
  IF es.head = NULL
    THEN [event |-> NULL, es |-> es]
    ELSE LET event == es.head
             h == es.ev[event].nextEvent IN
         [event |-> event,
          es |-> IF h # NULL
                   THEN [es EXCEPT !.head = h, !.ev[h].prevEvent = NULL]
                   ELSE [es EXCEPT !.head = h]]

popEvent(es) ==
  IF es.head = NULL
    THEN [event |-> NULL, es |-> es]
    ELSE LET event == es.head
             h == es.ev[event].nextEvent IN
         [event |-> event,
          es |-> IF h # NULL
                   THEN [es EXCEPT !.head = h, !.ev[h].prevEvent = NULL]
                   ELSE [es EXCEPT !.head = h, !.tail = NULL]]

\* removeFutureEvents(timeLimit)
\* A plausible slip: `current.prevEvent.nextEvent = null` forgotten.
removeFutureEvents_KeepLink(es, timeLimit) ==
  LET current == ScanLE(es, es.head, timeLimit) IN
  IF current # NULL
    THEN LET p == es.ev[current].prevEvent IN
         IF p # NULL
           THEN [es EXCEPT !.tail = p]
           ELSE [es EXCEPT !.head = NULL, !.tail = p]
    ELSE es

removeFutureEvents(es, timeLimit) ==
  LET current == ScanLE(es, es.head, timeLimit) IN
  IF current # NULL
    THEN LET p == es.ev[current].prevEvent IN
         IF p # NULL
           THEN [es EXCEPT !.ev[p].nextEvent = NULL, !.tail = p]
           ELSE [es EXCEPT !.head = NULL, !.tail = p]
    ELSE es

\* The identities of the events linked from `from` through nextEvent, in order.
RECURSIVE Chain(_, _, _)
Chain(es, from, fuel) ==
  IF from = NULL \/ fuel = 0
    THEN << >>
    ELSE <<from>> \o Chain(es, es.ev[from].nextEvent, fuel - 1)

\* The pending events, head first (one more step of fuel than there are
\* objects, so that a cycle would show as a sequence longer than the arena).
Pending(es) == Chain(es, es.head, Len(es.ev) + 1)

Range(s) == {s[i] : i \in 1..Len(s)}

\* ------------------------------------------------------ Distributions
\* The keys of the Distributions table.
DistributionKinds ==
  {"exponential", "poisson", "erlang", "hyperexponential", "hypoexponential",
   "coxian", "deterministic", "uniform", "weibull", "lognormal", "gamma",
   "beta", "pareto"}

\* Names that are no key of the table itself but that the lookup
\* Distributions[distributionType] finds on Object.prototype, as functions.
InheritedNames == {"toString", "valueOf", "constructor", "hasOwnProperty"}

\* One uniform draw U of Math.random(), by index: U = 1 - e^(-u), so that
\* -Math.log(1 - U) is u exactly; index 0 is U = 0.
Draws == {0, 1, 2}

NegLog1m(u) == u

\* The kinds whose sampler the model computes, each from one draw:
\*   exponential:   -mean * Math.log(1 - u)
\*   deterministic: params.value
\* Of the other kinds of the table the model keeps only that a number is
\* returned (0 stands for it); no run of the model samples from them.
KindsModelled == {"exponential", "deterministic"}

SampleOf(kind, params, u) ==
  CASE kind = "exponential" -> params.mean * NegLog1m(u)
    [] kind = "deterministic" -> params.value
    [] OTHER -> 0

\* generateRandomSample(distributionType, params) under the draw u: whether it
\* threw, and otherwise whether it returned a number, and which.
GenerateNoCheck(distributionType, params, u) ==
  [threw |-> FALSE, isNumber |-> TRUE, value |-> SampleOf(distributionType, params, u)]

generateRandomSample(distributionType, params, u) ==
  IF distributionType \in DistributionKinds
    THEN [threw |-> FALSE, isNumber |-> TRUE,
          value |-> SampleOf(distributionType, params, u)]
    ELSE IF distributionType \in InheritedNames
    THEN \* Distributions[distributionType] is a function of Object.prototype:
         \* it is called, and what it returns is not a number
         [threw |-> FALSE, isNumber |-> FALSE, value |-> 0]
    ELSE [threw |-> TRUE, isNumber |-> FALSE, value |-> 0]

\* ------------------------------------------------------------- routing
\* `let nextNodeId;` left unassigned, and a nodeId that is no key of nodes.
UNDEFINED == -1

\* `this.lastBusyTime = null`
NoTime == -1

\* Probabilities are counted in tenths: 10 is 1.0.  A draw of Math.random()
\* for routing is one of these tenths, in [0, 1).
RoutingDraws == {0, 5, 9}

\* Object.keys of an object with integer keys: ascending.
RECURSIVE SortedKeys(_)
SortedKeys(S) ==
  IF S = {} THEN << >>
  ELSE LET m == CHOOSE x \in S : \A y \in S : x <= y
       IN <<m>> \o SortedKeys(S \ {m})

\* The for loop over nextNodeIds: the first destination whose cumulative
\* probability is >= rand, or undefined when the loop ends without a break.
RECURSIVE Walk(_, _, _, _, _)
Walk(row, keys, i, cumulativeProb, rand) ==
  IF i > Len(keys) THEN UNDEFINED
  ELSE LET c == cumulativeProb + row[keys[i]] IN
       IF rand <= c THEN keys[i] ELSE Walk(row, keys, i + 1, c, rand)

\* The routing decision of a departure: "exit" when the row has no keys,
\* else the destination chosen by the walk (possibly undefined).
RouteAlwaysFirst(row, rand) ==
  IF DOMAIN row # {}
    THEN [exit |-> FALSE, nextNodeId |-> SortedKeys(DOMAIN row)[1]]
    ELSE [exit |-> TRUE, nextNodeId |-> UNDEFINED]

Route(row, rand) ==
  IF DOMAIN row # {}
    THEN [exit |-> FALSE,
          nextNodeId |-> Walk(row, SortedKeys(DOMAIN row), 1, 0, rand)]
    ELSE [exit |-> TRUE, nextNodeId |-> UNDEFINED]

RowSum(row) ==
  LET keys == SortedKeys(DOMAIN row)
      f[i \in 0..Len(keys)] == IF i = 0 THEN 0 ELSE f[i - 1] + row[keys[i]]
  IN f[Len(keys)]

\* ------------------------------------------------------------------ state
VARIABLES
  eventStack,   \* the EventStack: head, tail and the Event objects
  op,           \* EventStack API: the last call made ("new" before any)
  ret,          \* EventStack API: what the last popEvent returned
  pending,      \* history: events inserted and neither popped nor removed
  popHist,      \* history: every event popEvent returned, in order
  popRun,       \* history: the events popped since the last insertEvent
  cfg,          \* simulateQueueNetwork: its arguments
  pc,           \* "idle", "init", "loop", "done" (returned), "error" (threw)
  time,         \* the clock `time`
  jobIdCounter,
  nodes,        \* nodeId -> the Queue object's mutable fields
  nodeStats,    \* nodeId -> arrivals, departures, queueLengths, times
  jobTimes,     \* jobId -> arrivalTimes, departureTimes (by nodeId)
  jobStartTimes,
  jobEndTimes,
  processedJobs,
  totalSojournTimes,
  lastUpdateTime,
  snapshots,    \* the currentStats objects passed to updateCallback, in order
  thrown,       \* the error that ended the run ("none" while there is none)
  firstArrival, \* history: jobId -> the time of its first processed arrival
  exitOrder,    \* history: the jobs that left the system, in order
  busySince,    \* history: nodeId -> the time the node last became busy
  processedEvents, \* history: the events the loop has processed, in order
  lastIter,     \* history: what the last loop iteration did, and to which event
  stopRequested,\* the caller has asked the run to stop
  call,         \* a function called on its own: its arguments
  result        \* a function called on its own: its locals and its outcome

stackVars == <<op, ret, pending, popHist, popRun>>

simVars == <<cfg, pc, time, jobIdCounter, nodes, nodeStats, jobTimes,
             jobStartTimes, jobEndTimes, processedJobs, totalSojournTimes,
             lastUpdateTime, snapshots, thrown, firstArrival, exitOrder, busySince,
             processedEvents, lastIter, stopRequested>>

sampleVars == <<call, result>>

vars == <<eventStack, stackVars, simVars, sampleVars>>

\* The values of the variables a specification does not use.
StackIdle ==
  /\ op = "new"
  /\ ret = NULL
  /\ pending = {}
  /\ popHist = << >>
  /\ popRun = << >>

SimIdle ==
  /\ cfg = << >>
  /\ pc = "idle"
  /\ time = 0
  /\ jobIdCounter = 0
  /\ nodes = << >>
  /\ nodeStats = << >>
  /\ jobTimes = << >>
  /\ jobStartTimes = << >>
  /\ jobEndTimes = << >>
  /\ processedJobs = 0
  /\ totalSojournTimes = << >>
  /\ lastUpdateTime = 0
  /\ snapshots = << >>
  /\ thrown = "none"
  /\ firstArrival = << >>
  /\ exitOrder = << >>
  /\ busySince = << >>
  /\ processedEvents = << >>
  /\ lastIter = [kind |-> "none", event |-> NULL]
  /\ stopRequested = FALSE

SampleIdle ==
  /\ call = << >>
  /\ result = << >>

EventTimes == 0..MaxEventTime

\* -------------------------------------------- the EventStack API on its own
InitStack ==
  /\ eventStack = NewEventStack
  /\ op = "new"
  /\ ret = NULL
  /\ pending = {}
  /\ popHist = << >>
  /\ popRun = << >>
  /\ SimIdle
  /\ SampleIdle

\* eventStack.insertEvent(new Event(t, ...))
DoInsertEvent ==
  \E t \in EventTimes :
    /\ Len(eventStack.ev) < MaxStackEvents
    /\ LET e == Len(eventStack.ev) + 1 IN
       /\ eventStack' = insertEvent(NewEvent(eventStack, Event(t, "arrival", e, 1)), e)
       /\ pending' = pending \cup {e}
    /\ op' = "insert"
    /\ popRun' = << >>
    /\ UNCHANGED <<ret, popHist, simVars, sampleVars>>

\* eventStack.popEvent()
DoPopEvent ==
  LET r == popEvent(eventStack) IN
  /\ eventStack' = r.es
  /\ ret' = r.event
  /\ op' = "pop"
  /\ pending' = pending \ {r.event}
  /\ popHist' = IF r.event = NULL THEN popHist ELSE Append(popHist, r.event)
  /\ popRun' = IF r.event = NULL THEN popRun ELSE Append(popRun, r.event)
  /\ UNCHANGED <<simVars, sampleVars>>

\* eventStack.removeFutureEvents(t)
DoRemoveFutureEvents ==
  \E t \in EventTimes :
    /\ eventStack' = removeFutureEvents(eventStack, t)
    /\ op' = "remove"
    /\ pending' = {e \in pending : eventStack.ev[e].time <= t}
    /\ UNCHANGED <<ret, popHist, popRun, simVars, sampleVars>>

\* Any interleaving of insertEvent and popEvent calls on one EventStack.
NextStack == DoInsertEvent \/ DoPopEvent

SpecStack == InitStack /\ [][NextStack]_vars

\* The same with removeFutureEvents (the rollback scaffolding) as well.
NextStackRemove == DoInsertEvent \/ DoPopEvent \/ DoRemoveFutureEvents

SpecStackRemove == InitStack /\ [][NextStackRemove]_vars

\* ------------------------------------------------ simulateQueueNetwork
\* Event objects one run may construct (the model stops a run there).
MaxSimEvents == 12

\* `const updateInterval = 0.01`, in ticks of 0.005.
UpdateInterval == 2

\* new Queue(nodeId, serviceDistribution, serviceParams)
Queue(serviceDistribution, serviceParams) ==
  [serviceDistribution |-> serviceDistribution, serviceParams |-> serviceParams,
   queue |-> << >>, busy |-> FALSE, lastBusyTime |-> NoTime,
   totalServiceTime |-> 0, serviceTimes |-> << >>]

Exp(m) == [mean |-> m]
Det(v) == [value |-> v]

\* The arguments of the runs explored.  Rates only matter as `rate > 0`.
Configs ==
  { \* one exit node, exponential arrivals and service (the M/M/1 of the test)
    [nodes |-> (1 :> Queue("exponential", Exp(1))),
     routingMatrix |-> (1 :> << >>),
     externalArrivalRates |-> (1 :> 5),
     arrivalDistributions |-> (1 :> "exponential"),
     arrivalParams |-> (1 :> Exp(1)),
     warmupPeriod |-> 1, simulationPeriod |-> 2, updateCallback |-> TRUE],
    \* a tandem: 1 -> 2 with probability 1.0, 2 an exit node
    [nodes |-> (1 :> Queue("deterministic", Det(1)) @@ 2 :> Queue("exponential", Exp(1))),
     routingMatrix |-> (1 :> (2 :> 10) @@ 2 :> << >>),
     externalArrivalRates |-> (1 :> 5 @@ 2 :> 0),
     arrivalDistributions |-> (1 :> "deterministic"),
     arrivalParams |-> (1 :> Det(2)),
     warmupPeriod |-> 0, simulationPeriod |-> 4, updateCallback |-> TRUE],
    \* feedback: a job leaving node 1 comes back to it or goes on to node 2
    [nodes |-> (1 :> Queue("deterministic", Det(1)) @@ 2 :> Queue("deterministic", Det(1))),
     routingMatrix |-> (1 :> (1 :> 5 @@ 2 :> 5) @@ 2 :> << >>),
     externalArrivalRates |-> (1 :> 5),
     arrivalDistributions |-> (1 :> "deterministic"),
     arrivalParams |-> (1 :> Det(3)),
     warmupPeriod |-> 0, simulationPeriod |-> 8, updateCallback |-> FALSE],
    \* a row whose only probability is 0
    [nodes |-> (1 :> Queue("deterministic", Det(1)) @@ 2 :> Queue("deterministic", Det(1))),
     routingMatrix |-> (1 :> (2 :> 0) @@ 2 :> << >>),
     externalArrivalRates |-> (1 :> 5),
     arrivalDistributions |-> (1 :> "deterministic"),
     arrivalParams |-> (1 :> Det(2)),
     warmupPeriod |-> 0, simulationPeriod |-> 4, updateCallback |-> FALSE],
    \* a row with a negative probability
    [nodes |-> (1 :> Queue("deterministic", Det(1)) @@ 2 :> Queue("deterministic", Det(1))),
     routingMatrix |-> (1 :> (1 :> -5 @@ 2 :> 10) @@ 2 :> << >>),
     externalArrivalRates |-> (1 :> 5),
     arrivalDistributions |-> (1 :> "deterministic"),
     arrivalParams |-> (1 :> Det(2)),
     warmupPeriod |-> 0, simulationPeriod |-> 4, updateCallback |-> FALSE],
    \* a row whose probabilities sum to 1.5
    [nodes |-> (1 :> Queue("deterministic", Det(1)) @@ 2 :> Queue("deterministic", Det(1))),
     routingMatrix |-> (1 :> (1 :> 5 @@ 2 :> 10) @@ 2 :> << >>),
     externalArrivalRates |-> (1 :> 5),
     arrivalDistributions |-> (1 :> "deterministic"),
     arrivalParams |-> (1 :> Det(2)),
     warmupPeriod |-> 0, simulationPeriod |-> 4, updateCallback |-> FALSE],
    \* an arrival distribution that is no supported kind, at the second node
    [nodes |-> (1 :> Queue("deterministic", Det(1)) @@ 2 :> Queue("deterministic", Det(1))),
     routingMatrix |-> (1 :> << >> @@ 2 :> << >>),
     externalArrivalRates |-> (1 :> 5 @@ 2 :> 5),
     arrivalDistributions |-> (1 :> "deterministic" @@ 2 :> "invalid_distribution"),
     arrivalParams |-> (1 :> Det(2) @@ 2 :> Det(2)),
     warmupPeriod |-> 0, simulationPeriod |-> 4, updateCallback |-> FALSE],
    \* a service distribution that is no supported kind
    [nodes |-> (1 :> Queue("invalid_distribution", Det(1))),
     routingMatrix |-> (1 :> << >>),
     externalArrivalRates |-> (1 :> 5),
     arrivalDistributions |-> (1 :> "deterministic"),
     arrivalParams |-> (1 :> Det(2)),
     warmupPeriod |-> 0, simulationPeriod |-> 4, updateCallback |-> FALSE],
    \* no node has a positive external arrival rate
    [nodes |-> (1 :> Queue("deterministic", Det(1))),
     routingMatrix |-> (1 :> << >>),
     externalArrivalRates |-> (1 :> 0),
     arrivalDistributions |-> (1 :> "deterministic"),
     arrivalParams |-> (1 :> Det(2)),
     warmupPeriod |-> 0, simulationPeriod |-> 4, updateCallback |-> TRUE],
    \* a warm-up that outlasts the first busy periods of the node
    [nodes |-> (1 :> Queue("deterministic", Det(1))),
     routingMatrix |-> (1 :> << >>),
     externalArrivalRates |-> (1 :> 5),
     arrivalDistributions |-> (1 :> "deterministic"),
     arrivalParams |-> (1 :> Det(1)),
     warmupPeriod |-> 3, simulationPeriod |-> 1, updateCallback |-> FALSE],
    \* two parallel nodes, each with its own external arrivals
    [nodes |-> (1 :> Queue("deterministic", Det(1)) @@ 2 :> Queue("deterministic", Det(1))),
     routingMatrix |-> (1 :> << >> @@ 2 :> << >>),
     externalArrivalRates |-> (1 :> 5 @@ 2 :> 5),
     arrivalDistributions |-> (1 :> "deterministic" @@ 2 :> "deterministic"),
     arrivalParams |-> (1 :> Det(1) @@ 2 :> Det(2)),
     warmupPeriod |-> 0, simulationPeriod |-> 2, updateCallback |-> FALSE],
    \* one node that every job re-enters: routed and external Arrivals meet
    \* at the same time stamp
    [nodes |-> (1 :> Queue("deterministic", Det(1))),
     routingMatrix |-> (1 :> (1 :> 10)),
     externalArrivalRates |-> (1 :> 5),
     arrivalDistributions |-> (1 :> "deterministic"),
     arrivalParams |-> (1 :> Det(1)),
     warmupPeriod |-> 0, simulationPeriod |-> 3, updateCallback |-> FALSE] }

\* const totalSimulationTime = simulationPeriod + warmupPeriod
totalSimulationTime == cfg.simulationPeriod + cfg.warmupPeriod

\* The state a handler works on: the run's mutable objects, and `thrown`.
RunState ==
  [eventStack |-> eventStack, nodes |-> nodes, nodeStats |-> nodeStats,
   jobTimes |-> jobTimes, jobStartTimes |-> jobStartTimes,
   jobEndTimes |-> jobEndTimes, processedJobs |-> processedJobs,
   totalSojournTimes |-> totalSojournTimes, jobIdCounter |-> jobIdCounter,
   firstArrival |-> firstArrival, exitOrder |-> exitOrder,
   busySince |-> busySince, thrown |-> "none"]

\* eventStack.insertEvent(new Event(t, eventType, jobId, nodeId))
Schedule(st, t, eventType, jobId, nodeId) ==
  LET es == NewEvent(st.eventStack, Event(t, eventType, jobId, nodeId))
  IN [st EXCEPT !.eventStack = insertEvent(es, Len(es.ev))]

Throw(st, error) == [st EXCEPT !.thrown = error]

\* One turn of the forEach that schedules the first arrivals.
FirstArrival_SameId(st, c, nodeId, u) ==
  IF c.externalArrivalRates[nodeId] > 0
    THEN LET s == generateRandomSample(c.arrivalDistributions[nodeId],
                                        c.arrivalParams[nodeId], u)
         IN IF s.threw THEN Throw(st, "UnsupportedDistribution")
            ELSE Schedule(st, 0 + s.value, "arrival", st.jobIdCounter, nodeId)
    ELSE st

FirstArrival(st, c, nodeId, u) ==
  IF c.externalArrivalRates[nodeId] > 0
    THEN LET s == generateRandomSample(c.arrivalDistributions[nodeId],
                                        c.arrivalParams[nodeId], u)
         IN IF s.threw THEN Throw(st, "UnsupportedDistribution")
            ELSE [Schedule(st, 0 + s.value, "arrival", st.jobIdCounter, nodeId)
                    EXCEPT !.jobIdCounter = @ + 1]
    ELSE st

\* Object.entries(externalArrivalRates).forEach(...): the turns in key order,
\* up to the first that throws.
RECURSIVE FirstArrivals(_, _, _, _, _)
FirstArrivals(st, c, keys, i, draws) ==
  IF i > Len(keys) \/ st.thrown # "none" THEN st
  ELSE FirstArrivals(FirstArrival(st, c, keys[i], draws[keys[i]]), c, keys, i + 1, draws)

Min(S) == CHOOSE x \in S : \A y \in S : x <= y

\* The sum of f[x] over the x in S.
RECURSIVE SumOf(_, _)
SumOf(f, S) ==
  IF S = {} THEN 0
  ELSE LET x == CHOOSE y \in S : TRUE IN f[x] + SumOf(f, S \ {x})

\* The quotient a / b as numerator and denominator: den = 0 is the NaN or
\* Infinity of a division by 0.
Frac(a, b) == [num |-> a, den |-> b]

\* `if (!node.busy)`: the arrival starts a service.
IsIdle_Always(node) == TRUE

IsIdle(node) == ~node.busy

\* `node.queue.push(jobId)`
Push_Front(queue, jobId) == <<jobId>> \o queue

Push(queue, jobId) == Append(queue, jobId)

\* `node.queue.shift()`: the first job is removed; an empty array stays empty.
Shift_Keep(queue) == queue

Shift(queue) == IF queue = << >> THEN queue ELSE Tail(queue)

\* `if (node.queue.length > 0)`: the departure leaves a job to serve.
HasNextJob_Never(node) == FALSE

HasNextJob(node) == Len(node.queue) > 0

\* The body of `if (event.eventType === 'arrival')`, under the draws uS (the
\* service time) and uA (the next inter-arrival time).
HandleArrival(st, c, now, event, uS, uA) ==
  LET nodeId == event.nodeId
      jobId == event.jobId
      s1 == IF jobId \in DOMAIN st.jobTimes THEN st
            ELSE [st EXCEPT
                    !.jobTimes = (jobId :> [arrivalTimes |-> << >>,
                                            departureTimes |-> << >>]) @@ @,
                    !.firstArrival = (jobId :> now) @@ @]
      s2 == [s1 EXCEPT !.jobTimes[jobId].arrivalTimes = (nodeId :> now) @@ @]
  IN
  IF nodeId \notin DOMAIN c.nodes
    THEN Throw(s2, "TypeError")  \* node is undefined: node.queue throws
  ELSE
  LET s3 == [s2 EXCEPT !.nodes[nodeId].queue = Push(@, jobId),
                       !.nodeStats[nodeId].arrivals = @ + 1,
                       !.jobStartTimes = (jobId :> now) @@ @]
      node == s3.nodes[nodeId]
      svc == generateRandomSample(node.serviceDistribution, node.serviceParams, uS)
      s4 == IF IsIdle(node)
              THEN LET b == [s3 EXCEPT
                               !.nodes[nodeId].busy = TRUE,
                               !.nodes[nodeId].lastBusyTime =
                                  IF now >= c.warmupPeriod THEN now
                                                           ELSE c.warmupPeriod,
                               !.busySince = (nodeId :> now) @@ @]
                   IN IF svc.threw THEN Throw(b, "UnsupportedDistribution")
                      ELSE [Schedule(b, now + svc.value, "departure", jobId, nodeId)
                              EXCEPT !.nodes[nodeId].serviceTimes = Append(@, svc.value)]
              ELSE s3
      arr == generateRandomSample(c.arrivalDistributions[nodeId],
                                  c.arrivalParams[nodeId], uA)
  IN
  IF s4.thrown # "none" THEN s4
  ELSE IF nodeId \in DOMAIN c.externalArrivalRates /\ c.externalArrivalRates[nodeId] > 0
    THEN IF arr.threw THEN Throw(s4, "UnsupportedDistribution")
         ELSE [Schedule(s4, now + arr.value, "arrival", s4.jobIdCounter, nodeId)
                 EXCEPT !.jobIdCounter = @ + 1]
    ELSE s4

\* The body of `else if (event.eventType === 'departure')`, under the draws
\* rand (routing) and uS (the next job's service time).
HandleDeparture(st, c, now, event, rand, uS) ==
  LET nodeId == event.nodeId
      jobId == event.jobId
      s1 == [st EXCEPT
               !.nodes[nodeId].queue = Shift(@),
               !.nodeStats[nodeId].departures = @ + 1,
               !.jobTimes[jobId].departureTimes = (nodeId :> now) @@ @]
      routingProbs == IF nodeId \in DOMAIN c.routingMatrix
                        THEN c.routingMatrix[nodeId] ELSE << >>
      r == Route(routingProbs, rand)
      s2 == IF ~r.exit
              THEN Schedule(s1, now, "arrival", jobId, r.nextNodeId)
              ELSE LET at == s1.jobTimes[jobId].arrivalTimes
                       firstArrivalTime == Min({at[n] : n \in DOMAIN at})
                   IN [s1 EXCEPT
                         !.processedJobs = @ + 1,
                         !.jobEndTimes = (jobId :> now) @@ @,
                         !.totalSojournTimes = Append(@, now - firstArrivalTime),
                         !.exitOrder = Append(@, jobId)]
      node == s2.nodes[nodeId]
      svc == generateRandomSample(node.serviceDistribution, node.serviceParams, uS)
  IN
  IF HasNextJob(node)
    THEN IF svc.threw THEN Throw(s2, "UnsupportedDistribution")
         ELSE [Schedule(s2, now + svc.value, "departure", node.queue[1], nodeId)
                 EXCEPT !.nodes[nodeId].serviceTimes = Append(@, svc.value)]
    ELSE IF node.lastBusyTime # NoTime
      THEN [s2 EXCEPT !.nodes[nodeId].busy = FALSE,
                      !.nodes[nodeId].totalServiceTime = @ + (now - node.lastBusyTime),
                      !.nodes[nodeId].lastBusyTime = NoTime]
      ELSE [s2 EXCEPT !.nodes[nodeId].busy = FALSE]

\* `if (time > totalSimulationTime) break;`, tested after `time = event.time`.
BeyondHorizon_OldClock(oldTime, eventTime, total) == oldTime > total

BeyondHorizon(oldTime, eventTime, total) == eventTime > total

\* "Collect statistics if past warmup period"
CollectStatistics_Always(stats, ns, c, now) ==
  [id \in DOMAIN stats |->
     [stats[id] EXCEPT !.queueLengths = Append(@, Len(ns[id].queue)),
                       !.times = Append(@, now)]]

CollectStatistics(stats, ns, c, now) ==
  IF now >= c.warmupPeriod
    THEN [id \in DOMAIN stats |->
            [stats[id] EXCEPT !.queueLengths = Append(@, Len(ns[id].queue)),
                              !.times = Append(@, now)]]
    ELSE stats

\* An object held by a snapshot is either a new object with its own value
\* or the very object the engine keeps using (shared), whose value is then
\* whatever the engine's object holds.
\* JSON.parse(JSON.stringify(x)): a new object graph with the values of x.
JsonCopy(x) == [shared |-> FALSE, value |-> x]

\* [...a]: a new array with the elements of a.
SpreadCopy(a) == [shared |-> FALSE, value |-> a]

\* `simulationProgress: Math.min(100, (time / totalSimulationTime) * 100)`
Progress(now, total) ==
  IF (now * 100) \div total < 100 THEN (now * 100) \div total ELSE 100

Snapshot_SameArrays(now, stats, processed, sojourn, total) ==
  [time |-> now, nodeStats |-> JsonCopy(stats), processedJobs |-> processed,
   totalSojournTimes |-> [shared |-> TRUE, value |-> << >>],
   simulationProgress |-> Progress(now, total)]

\* The currentStats object handed to updateCallback: copies of the values.
Snapshot(now, stats, processed, sojourn, total) ==
  [time |-> now, nodeStats |-> JsonCopy(stats), processedJobs |-> processed,
   totalSojournTimes |-> SpreadCopy(sojourn),
   simulationProgress |-> Progress(now, total)]

\* The variables a handler's result gives.
Commit(st) ==
  /\ eventStack' = st.eventStack
  /\ nodes' = st.nodes
  /\ jobTimes' = st.jobTimes
  /\ jobStartTimes' = st.jobStartTimes
  /\ jobEndTimes' = st.jobEndTimes
  /\ processedJobs' = st.processedJobs
  /\ totalSojournTimes' = st.totalSojournTimes
  /\ jobIdCounter' = st.jobIdCounter
  /\ firstArrival' = st.firstArrival
  /\ exitOrder' = st.exitOrder
  /\ busySince' = st.busySince
  /\ thrown' = st.thrown

\* The end of one loop iteration that processed an event: statistics and the
\* update callback, or the run's end when the handler threw.
\* `if (updateCallback && time - lastUpdateTime >= updateInterval)`
UpdateDue_EveryEvent(callback, now, last) == callback

UpdateDue(callback, now, last) == callback /\ now - last >= UpdateInterval

EndIteration(st, now) ==
  /\ Commit(st)
  /\ time' = now
  /\ IF st.thrown # "none"
       THEN /\ pc' = "error"
            /\ UNCHANGED <<nodeStats, lastUpdateTime, snapshots>>
       ELSE LET stats == CollectStatistics(st.nodeStats, st.nodes, cfg, now) IN
            /\ pc' = "loop"
            /\ nodeStats' = stats
            /\ IF UpdateDue(cfg.updateCallback, now, lastUpdateTime)
                 THEN /\ snapshots' = Append(snapshots,
                             Snapshot(now, stats, st.processedJobs,
                                      st.totalSojournTimes, totalSimulationTime))
                      /\ lastUpdateTime' = now
                 ELSE UNCHANGED <<snapshots, lastUpdateTime>>

\* A call of simulateQueueNetwork with freshly constructed nodes.
InitRun ==
  /\ cfg \in Configs
  /\ pc = "init"
  /\ eventStack = NewEventStack
  /\ time = 0
  /\ jobIdCounter = 0
  /\ nodes = cfg.nodes
  /\ nodeStats = [id \in DOMAIN cfg.nodes |->
                    [arrivals |-> 0, departures |-> 0,
                     queueLengths |-> << >>, times |-> << >>]]
  /\ jobTimes = << >>
  /\ jobStartTimes = << >>
  /\ jobEndTimes = << >>
  /\ processedJobs = 0
  /\ totalSojournTimes = << >>
  /\ lastUpdateTime = 0
  /\ snapshots = << >>
  /\ thrown = "none"
  /\ firstArrival = << >>
  /\ exitOrder = << >>
  /\ busySince = << >>
  /\ processedEvents = << >>
  /\ lastIter = [kind |-> "none", event |-> NULL]
  /\ stopRequested = FALSE
  /\ StackIdle

Init == InitRun /\ SampleIdle

\* "Calculate performance metrics": the mean of the sojourn times as the
\* fraction sum / length, or 0 when no job left the system.
overallMeanSojournTime_Unguarded(sojourn) ==
  Frac(SumOf(sojourn, DOMAIN sojourn), Len(sojourn))

overallMeanSojournTime(sojourn) ==
  IF Len(sojourn) > 0
    THEN Frac(SumOf(sojourn, DOMAIN sojourn), Len(sojourn))
    ELSE Frac(0, 1)

\* The object simulateQueueNetwork returns.
ReturnValue ==
  [nodeStats |-> nodeStats,
   overallMeanSojournTime |-> overallMeanSojournTime(totalSojournTimes),
   processedJobs |-> processedJobs,
   totalSojournTimes |-> totalSojournTimes,
   jobTimes |-> jobTimes,
   jobStartTimes |-> jobStartTimes,
   jobEndTimes |-> jobEndTimes]

\* "Schedule first job arrival": up to the head of the while loop.
ScheduleFirstArrivalsFrom(D) ==
  /\ pc = "init"
  /\ \E draws \in [DOMAIN cfg.externalArrivalRates -> D] :
       LET st == FirstArrivals(RunState, cfg,
                               SortedKeys(DOMAIN cfg.externalArrivalRates), 1, draws)
       IN /\ Commit(st)
          /\ pc' = IF st.thrown # "none" THEN "error" ELSE "loop"
  /\ lastIter' = [kind |-> "init", event |-> NULL]
  /\ UNCHANGED <<cfg, time, nodeStats, lastUpdateTime, snapshots, stopRequested,
               processedEvents,
               stackVars, sampleVars>>

ScheduleFirstArrivals == ScheduleFirstArrivalsFrom(Draws)

\* The loop condition `time < totalSimulationTime` fails: the function returns.
LoopExit ==
  /\ pc = "loop"
  /\ ~(time < totalSimulationTime)
  /\ pc' = "done"
  /\ lastIter' = [kind |-> "exit", event |-> NULL]
  /\ UNCHANGED <<eventStack, cfg, time, jobIdCounter, nodes, nodeStats, jobTimes,
                 jobStartTimes, jobEndTimes, processedJobs, totalSojournTimes,
                 lastUpdateTime, snapshots, thrown, firstArrival, exitOrder, busySince,
                 processedEvents,
                 stopRequested, stackVars, sampleVars>>

\* popEvent() returns null: break.
EmptyBreak ==
  /\ pc = "loop"
  /\ time < totalSimulationTime
  /\ popEvent(eventStack).event = NULL
  /\ pc' = "done"
  /\ lastIter' = [kind |-> "empty", event |-> NULL]
  /\ UNCHANGED <<eventStack, cfg, time, jobIdCounter, nodes, nodeStats, jobTimes,
                 jobStartTimes, jobEndTimes, processedJobs, totalSojournTimes,
                 lastUpdateTime, snapshots, thrown, firstArrival, exitOrder, busySince,
                 processedEvents,
                 stopRequested, stackVars, sampleVars>>

\* The popped event lies beyond the horizon: `time = event.time`, then break.
HorizonBreak ==
  /\ pc = "loop"
  /\ time < totalSimulationTime
  /\ LET r == popEvent(eventStack) IN
     /\ r.event # NULL
     /\ BeyondHorizon(time, r.es.ev[r.event].time, totalSimulationTime)
     /\ eventStack' = r.es
     /\ time' = r.es.ev[r.event].time
     /\ lastIter' = [kind |-> "horizon", event |-> r.event]
  /\ pc' = "done"
  /\ UNCHANGED <<cfg, jobIdCounter, nodes, nodeStats, jobTimes,
                 jobStartTimes, jobEndTimes, processedJobs, totalSojournTimes,
                 lastUpdateTime, snapshots, thrown, firstArrival, exitOrder, busySince,
                 processedEvents,
                 stopRequested, stackVars, sampleVars>>

\* One iteration that pops and processes an arrival, its draws taken from D,
\* in a run of at most maxEvents events.
ProcessArrivalFrom(D, maxEvents) ==
  /\ pc = "loop"
  /\ time < totalSimulationTime
  /\ Len(eventStack.ev) + 2 <= maxEvents
  /\ LET r == popEvent(eventStack) IN
     /\ r.event # NULL
     /\ LET event == r.es.ev[r.event] IN
        /\ ~BeyondHorizon(time, event.time, totalSimulationTime)
        /\ event.eventType = "arrival"
        /\ \E uS \in D, uA \in D :
             EndIteration(HandleArrival([RunState EXCEPT !.eventStack = r.es],
                                        cfg, event.time, event, uS, uA),
                          event.time)
        /\ lastIter' = [kind |-> "arrival", event |-> r.event]
        /\ processedEvents' = Append(processedEvents, r.event)
  /\ UNCHANGED <<cfg, stopRequested, stackVars, sampleVars>>

ProcessArrival == ProcessArrivalFrom(Draws, MaxSimEvents)

\* One iteration that pops and processes a departure, its service draw
\* taken from D, in a run of at most maxEvents events.
ProcessDepartureFrom(D, maxEvents) ==
  /\ pc = "loop"
  /\ time < totalSimulationTime
  /\ Len(eventStack.ev) + 2 <= maxEvents
  /\ LET r == popEvent(eventStack) IN
     /\ r.event # NULL
     /\ LET event == r.es.ev[r.event] IN
        /\ ~BeyondHorizon(time, event.time, totalSimulationTime)
        /\ event.eventType = "departure"
        /\ \E rand \in RoutingDraws, uS \in D :
             EndIteration(HandleDeparture([RunState EXCEPT !.eventStack = r.es],
                                          cfg, event.time, event, rand, uS),
                          event.time)
        /\ lastIter' = [kind |-> "departure", event |-> r.event]
        /\ processedEvents' = Append(processedEvents, r.event)
  /\ UNCHANGED <<cfg, stopRequested, stackVars, sampleVars>>

ProcessDeparture == ProcessDepartureFrom(Draws, MaxSimEvents)

Next ==
  \/ ScheduleFirstArrivals
  \/ LoopExit
  \/ EmptyBreak
  \/ HorizonBreak
  \/ ProcessArrival
  \/ ProcessDeparture

Spec == Init /\ [][Next]_vars

\* --------------------------------------- generateRandomSample on its own
SampleNames == DistributionKinds \cup InheritedNames
                 \cup {"invalid_distribution", "normal", ""}

InitSample ==
  /\ call \in [distributionType : SampleNames,
               params : {[mean |-> 1, value |-> 2], [mean |-> 2, value |-> 1]},
               u : Draws]
  /\ result = << >>
  /\ eventStack = NewEventStack
  /\ StackIdle
  /\ SimIdle

\* generateRandomSample(distributionType, params)
DoGenerateRandomSample ==
  /\ result = << >>
  /\ result' = generateRandomSample(call.distributionType, call.params, call.u)
  /\ UNCHANGED <<call, eventStack, stackVars, simVars>>

NextSample == DoGenerateRandomSample

SpecSample == InitSample /\ [][NextSample]_vars

\* ------------------------------------ a callback that mutates what it got
\* updateCallback (or code it handed the snapshot to) pushes onto an array of
\* the last snapshot it received: the sojourn list, or the queue lengths of
\* the snapshot's first node.  A push onto a shared object is a push onto
\* the engine's own array.
CallbackMutates ==
  /\ pc \in {"loop", "done"}
  /\ snapshots # << >>
  /\ LET i == Len(snapshots)
         s == snapshots[i]
         n == SortedKeys(DOMAIN nodeStats)[1]
     IN
     \E field \in {"nodeStats", "totalSojournTimes"} :
       IF field = "totalSojournTimes"
         THEN IF s.totalSojournTimes.shared
                THEN /\ -1 \notin Range(totalSojournTimes)
                     /\ totalSojournTimes' = Append(totalSojournTimes, -1)
                     /\ UNCHANGED <<snapshots, nodeStats>>
                ELSE /\ -1 \notin Range(s.totalSojournTimes.value)
                     /\ snapshots' = [snapshots EXCEPT
                                        ![i].totalSojournTimes.value = Append(@, -1)]
                     /\ UNCHANGED <<totalSojournTimes, nodeStats>>
         ELSE IF s.nodeStats.shared
                THEN /\ -1 \notin Range(nodeStats[n].queueLengths)
                     /\ nodeStats' = [nodeStats EXCEPT
                                        ![n].queueLengths = Append(@, -1)]
                     /\ UNCHANGED <<snapshots, totalSojournTimes>>
                ELSE /\ -1 \notin Range(s.nodeStats.value[n].queueLengths)
                     /\ snapshots' = [snapshots EXCEPT
                                        ![i].nodeStats.value[n].queueLengths =
                                          Append(@, -1)]
                     /\ UNCHANGED <<totalSojournTimes, nodeStats>>
  /\ lastIter' = [kind |-> "callback", event |-> NULL]
  /\ UNCHANGED <<eventStack, cfg, pc, time, jobIdCounter, nodes, jobTimes,
                 jobStartTimes, jobEndTimes, processedJobs, lastUpdateTime,
                 thrown, firstArrival, exitOrder, busySince, processedEvents,
                 stopRequested,
                 stackVars,
                 sampleVars>>

\* The runs that are given an updateCallback.
InitCallback == Init /\ cfg.updateCallback

NextCallback == Next \/ CallbackMutates

SpecCallback == InitCallback /\ [][NextCallback]_vars

\* ---------------------------------- runs whose every duration is positive
\* The draws of Math.random() other than 0: every sampled inter-arrival and
\* service duration is then at least one tick.
PositiveDraws == Draws \ {0}

\* The events a run may construct when every duration is positive: more
\* than any run of Configs constructs before its horizon.
MaxPositiveEvents == 20

ScheduleFirstArrivalsPositive == ScheduleFirstArrivalsFrom(PositiveDraws)

ProcessArrivalPositive == ProcessArrivalFrom(PositiveDraws, MaxPositiveEvents)

ProcessDeparturePositive ==
  ProcessDepartureFrom(PositiveDraws, MaxPositiveEvents)

NextPositive ==
  \/ ScheduleFirstArrivalsPositive
  \/ LoopExit
  \/ EmptyBreak
  \/ HorizonBreak
  \/ ProcessArrivalPositive
  \/ ProcessDeparturePositive

\* The loop is synchronous code: an iteration that can run does run.
SpecPositive == Init /\ [][NextPositive]_vars /\ WF_vars(NextPositive)

\* ------------------------------------------- a caller that asks to stop
\* The caller (the Stop button of the control panel) asks the run to stop.
\* simulateQueueNetwork has no parameter that carries the request and its
\* loop reads none, so no action of the run depends on stopRequested.
RequestStop ==
  /\ pc \in {"init", "loop"}
  /\ ~stopRequested
  /\ stopRequested' = TRUE
  /\ UNCHANGED <<eventStack, cfg, pc, time, jobIdCounter, nodes, nodeStats,
                 jobTimes, jobStartTimes, jobEndTimes, processedJobs,
                 totalSojournTimes, lastUpdateTime, snapshots, thrown,
                 firstArrival, exitOrder, busySince, processedEvents, lastIter,
                 stackVars,
                 sampleVars>>

NextStop == Next \/ RequestStop

SpecStop == Init /\ [][NextStop]_vars

\* ------------------------------------------- the routing walk on its own
\* The routing rows the walk is run on: the rows of Configs and rows of
\* three destinations, of absent keys and of sums below 1.
RouterRows ==
  { << >>,
    (2 :> 10),
    (1 :> 5) @@ (2 :> 5),
    (2 :> 0),
    (1 :> -5) @@ (2 :> 10),
    (1 :> 5) @@ (2 :> 10),
    (1 :> 3) @@ (2 :> 3) @@ (3 :> 4),
    (1 :> 2) @@ (3 :> 3) }

\* The number of departures routed in a row over one table.
MaxRoutes == 2

InitRouter ==
  /\ call \in [row : RouterRows, draws : [1..MaxRoutes -> RoutingDraws]]
  /\ result = << >>
  /\ eventStack = NewEventStack
  /\ StackIdle
  /\ SimIdle

\* The routing block of one departure, under the next draw of Math.random().
DoRoute ==
  /\ Len(result) < MaxRoutes
  /\ result' = Append(result, Route(call.row, call.draws[Len(result) + 1]))
  /\ UNCHANGED <<call, eventStack, stackVars, simVars>>

NextRouter == DoRoute

SpecRouter == InitRouter /\ [][NextRouter]_vars

\* ------------------------------------------------ validateJacksonsTheorem
\* Rates are whole jobs per time unit and probabilities tenths; the calls
\* below keep every product rate * probability a whole number, so the
\* arithmetic of the solver is exact.  A utilization or an error is a
\* fraction [num, den]; den = 0 is the NaN or Infinity of a division by 0.
\* `const tolerance = 0.0001`, as the fraction ToleranceNum / ToleranceDen.
ToleranceNum == 1

ToleranceDen == 10000

\* `const maxIterations = 100`
MaxIterations == 100

\* `let maxDiff = Infinity`: a number above every difference of the calls.
Infinity == 100000

\* `maxDiff > tolerance`
ExceedsTolerance(maxDiff) == maxDiff * ToleranceDen > ToleranceNum

Abs(x) == IF x < 0 THEN -x ELSE x

Max(S) == CHOOSE x \in S : \A y \in S : y <= x

\* `(rates[node] || 0)`
RateOr0(rates, node) == IF node \in DOMAIN rates THEN rates[node] ELSE 0

\* One pass of the while loop over the rates: newRates starts as a copy of
\* totalArrivalRates and every routing entry adds
\* totalArrivalRates[fromNode] * prob to newRates[toNode].
NewRates(totalArrivalRates, routingProbabilities) ==
  LET froms == DOMAIN routingProbabilities
      keys == DOMAIN totalArrivalRates
                \cup UNION {DOMAIN routingProbabilities[f] : f \in froms}
      flow(toNode) ==
        [f \in froms |->
           IF toNode \in DOMAIN routingProbabilities[f]
             THEN (totalArrivalRates[f] * routingProbabilities[f][toNode]) \div 10
             ELSE 0]
  IN [node \in keys |->
        RateOr0(totalArrivalRates, node) + SumOf(flow(node), froms)]

\* The maximum of |newRates[node] - totalArrivalRates[node]|, from 0.
MaxDiff(newRates, totalArrivalRates) ==
  Max({0} \cup {Abs(newRates[n] - RateOr0(totalArrivalRates, n)) :
                  n \in DOMAIN newRates})

\* The sum of fractions
FracAdd(x, y) == Frac(x.num * y.den + y.num * x.den, x.den * y.den)

RECURSIVE FracSum(_, _)
FracSum(f, keys) ==
  IF keys = << >> THEN Frac(0, 1)
  ELSE FracAdd(f[Head(keys)], FracSum(f, Tail(keys)))

\* x < n for a fraction x: false for NaN and for +Infinity.
FracLess(x, n) == x.den > 0 /\ x.num < n * x.den

\* The statements after the loop and the returned object.  A simulated
\* utilization is given in percent.
JacksonResult(c, totalArrivalRates, iterations) ==
  LET ns == DOMAIN c.serviceRates
      lambda(n) == RateOr0(totalArrivalRates, n)
      theoreticalUtilization == [n \in ns |-> Frac(lambda(n), c.serviceRates[n])]
      simulatedUtilization ==
        [n \in ns |-> IF n \in DOMAIN c.simulationResults.nodeUtilization
                        THEN c.simulationResults.nodeUtilization[n] ELSE 0]
      errors == [n \in ns |->
                   Frac(Abs(100 * lambda(n)
                              - simulatedUtilization[n] * c.serviceRates[n]),
                        lambda(n))]
      total == FracSum(errors, SortedKeys(ns))
      averageError == Frac(total.num, total.den * Cardinality(ns))
      \* Math.max(...Object.values(errors)): NaN (0 / 0) if any error is NaN,
      \* else Infinity (1 / 0) if any error is infinite, else the largest.
      maxError ==
        IF \E n \in ns : errors[n].den = 0 /\ errors[n].num = 0 THEN Frac(0, 0)
        ELSE IF \E n \in ns : errors[n].den = 0 THEN Frac(1, 0)
        ELSE LET e == CHOOSE m \in ns : \A n \in ns :
                         errors[n].num * errors[m].den
                           <= errors[m].num * errors[n].den
             IN errors[e]
  IN [theoreticalUtilization |-> theoreticalUtilization,
      simulatedUtilization |-> simulatedUtilization,
      errors |-> errors,
      averageError |-> averageError,
      maxError |-> maxError,
      isValid |-> FracLess(averageError, 5),
      iterations |-> iterations]

\* The calls: a two-node tandem (with and without a row for node 2), a
\* single node, a split that sends half of node 1's jobs to node 2, and a
\* tandem with no arrivals.
JacksonCalls ==
  LET U == [nodeUtilization |-> (1 :> 50) @@ (2 :> 50)]
      Mu == (1 :> 10) @@ (2 :> 10)
  IN { [simulationResults |-> U, serviceRates |-> Mu,
        externalArrivalRates |-> (1 :> 5) @@ (2 :> 0),
        routingProbabilities |-> (1 :> (2 :> 10)) @@ (2 :> << >>)],
       [simulationResults |-> U, serviceRates |-> Mu,
        externalArrivalRates |-> (1 :> 5) @@ (2 :> 0),
        routingProbabilities |-> (1 :> (2 :> 10))],
       [simulationResults |-> [nodeUtilization |-> (1 :> 50)],
        serviceRates |-> (1 :> 10),
        externalArrivalRates |-> (1 :> 5),
        routingProbabilities |-> (1 :> << >>)],
       [simulationResults |-> U, serviceRates |-> Mu,
        externalArrivalRates |-> (1 :> 4) @@ (2 :> 1),
        routingProbabilities |-> (1 :> (2 :> 5)) @@ (2 :> << >>)],
       [simulationResults |-> U, serviceRates |-> Mu,
        externalArrivalRates |-> (1 :> 0) @@ (2 :> 0),
        routingProbabilities |-> (1 :> (2 :> 10)) @@ (2 :> << >>)] }

\* "Initialize with external arrivals", up to the head of the while loop.
InitJackson ==
  /\ call \in JacksonCalls
  /\ result = [pc |-> "solve",
               totalArrivalRates |-> call.externalArrivalRates,
               maxDiff |-> Infinity,
               iterations |-> 0,
               returned |-> << >>]
  /\ eventStack = NewEventStack
  /\ StackIdle
  /\ SimIdle

\* One pass of `while (maxDiff > tolerance && iterations < maxIterations)`.
JacksonIterate ==
  /\ result.pc = "solve"
  /\ ExceedsTolerance(result.maxDiff)
  /\ result.iterations < MaxIterations
  /\ LET newRates == NewRates(result.totalArrivalRates, call.routingProbabilities)
     IN result' = [result EXCEPT
                     !.maxDiff = MaxDiff(newRates, result.totalArrivalRates),
                     !.totalArrivalRates = newRates,
                     !.iterations = @ + 1]
  /\ UNCHANGED <<call, eventStack, stackVars, simVars>>

\* The loop condition fails: utilizations, errors and the return.
JacksonReturn ==
  /\ result.pc = "solve"
  /\ ~(ExceedsTolerance(result.maxDiff) /\ result.iterations < MaxIterations)
  /\ result' = [result EXCEPT
                  !.pc = "done",
                  !.returned = JacksonResult(call, result.totalArrivalRates,
                                             result.iterations)]
  /\ UNCHANGED <<call, eventStack, stackVars, simVars>>

NextJackson == JacksonIterate \/ JacksonReturn

SpecJackson == InitJackson /\ [][NextJackson]_vars

\* -------------------------------------------- optimizedCalculateBatchMeans
MaxDataLen == 5

MaxDatum == 2

MaxBatchSize == 3

\* The inner loops over one batch: `sum += data[i * batchSize + j]` and
\* `sumSquaredDiff += Math.pow(data[i * batchSize + j] - batchMean, 2)`, the
\* latter times batchSize squared (batchMean is sum / batchSize).  Arrays
\* are indexed from 1 here, so data[k] of the code is data[k + 1].
RECURSIVE BatchSum_NoStride(_, _, _, _)
BatchSum_NoStride(data, i, batchSize, j) ==
  IF j >= batchSize THEN 0
  ELSE data[i + j + 1] + BatchSum_NoStride(data, i, batchSize, j + 1)

RECURSIVE BatchSum(_, _, _, _)
BatchSum(data, i, batchSize, j) ==
  IF j >= batchSize THEN 0
  ELSE data[i * batchSize + j + 1] + BatchSum(data, i, batchSize, j + 1)

RECURSIVE BatchSquares(_, _, _, _, _)
BatchSquares(data, i, batchSize, sum, j) ==
  IF j >= batchSize THEN 0
  ELSE LET d == batchSize * data[i * batchSize + j + 1] - sum
       IN d * d + BatchSquares(data, i, batchSize, sum, j + 1)

\* optimizedCalculateBatchMeans(data, batchSize).  A batch mean is the
\* fraction sum / batchSize; a confidence half-width, zCritical * stdDev /
\* sqrt(batchSize), is kept as its square over zCritical squared:
\* sumSquaredDiff / batchSize^2.  batchSize 0 makes numBatches Infinity or
\* NaN and `new Array(numBatches)` throws a RangeError.
optimizedCalculateBatchMeans(data, batchSize) ==
  IF batchSize = 0
    THEN [threw |-> TRUE, batchMeans |-> << >>, batchConfIntervals |-> << >>,
          batchNumbers |-> << >>]
    ELSE
      LET numBatches == Len(data) \div batchSize
          sum(i) == BatchSum(data, i, batchSize, 0)
      IN [threw |-> FALSE,
          batchMeans |-> [i \in 1..numBatches |-> Frac(sum(i - 1), batchSize)],
          batchConfIntervals |->
            [i \in 1..numBatches |->
               Frac(BatchSquares(data, i - 1, batchSize, sum(i - 1), 0),
                    batchSize * batchSize * batchSize * batchSize)],
          batchNumbers |-> [i \in 1..numBatches |-> i]]

\* The data sets of at most n values.
DataOfLen(n) == UNION {[1..k -> 0..MaxDatum] : k \in 0..n}

InitBatch ==
  /\ call \in [data : DataOfLen(MaxDataLen), batchSize : 0..MaxBatchSize]
  /\ result = << >>
  /\ eventStack = NewEventStack
  /\ StackIdle
  /\ SimIdle

DoBatchMeans ==
  /\ result = << >>
  /\ result' = optimizedCalculateBatchMeans(call.data, call.batchSize)
  /\ UNCHANGED <<call, eventStack, stackVars, simVars>>

NextBatch == DoBatchMeans

SpecBatch == InitBatch /\ [][NextBatch]_vars

\* ------------------------------- statistics of runs and of batch-means calls
\* A run of positive durations beside a call of optimizedCalculateBatchMeans
\* on a data set of at most one value.
InitStats ==
  /\ InitRun
  /\ call \in [data : DataOfLen(1), batchSize : 0..MaxBatchSize]
  /\ result = << >>

\* The call is made while simulateQueueNetwork is not running.
BatchMeansBesideRun ==
  /\ pc \in {"init", "done", "error"}
  /\ result = << >>
  /\ result' = optimizedCalculateBatchMeans(call.data, call.batchSize)
  /\ UNCHANGED <<call, eventStack, stackVars, simVars>>

NextStats == NextPositive \/ BatchMeansBesideRun

SpecStats == InitStats /\ [][NextStats]_vars

\* ------------------------------------- optimizations.js: optimizedInsertEvent
\* The binary search over the array `events` (0-based positions, events[i] is
\* arr[i + 1]): the first position whose event is later than t, or the
\* array's length.
RECURSIVE BinarySearch_Strict(_, _, _, _, _, _)
BinarySearch_Strict(es, arr, t, left, right, insertIndex) ==
  IF left <= right
    THEN LET mid == (left + right) \div 2 IN
         IF es.ev[arr[mid + 1]].time < t
           THEN BinarySearch_Strict(es, arr, t, mid + 1, right, insertIndex)
           ELSE BinarySearch_Strict(es, arr, t, left, mid - 1, mid)
    ELSE insertIndex

RECURSIVE BinarySearch(_, _, _, _, _, _)
BinarySearch(es, arr, t, left, right, insertIndex) ==
  IF left <= right
    THEN LET mid == (left + right) \div 2 IN
         IF es.ev[arr[mid + 1]].time <= t
           THEN BinarySearch(es, arr, t, mid + 1, right, insertIndex)
           ELSE BinarySearch(es, arr, t, left, mid - 1, mid)
    ELSE insertIndex

\* optimizedInsertEvent(eventStack, event), for the Event object of identity e.
optimizedInsertEvent(es, e) ==
  IF es.head = NULL
    THEN [es EXCEPT !.head = e, !.tail = e]
    ELSE
      LET events == Pending(es)
          insertIndex == BinarySearch(es, events, es.ev[e].time,
                                      0, Len(events) - 1, Len(events))
      IN
      IF insertIndex = Len(events)
        THEN [es EXCEPT !.ev[es.tail].nextEvent = e,
                        !.ev[e].prevEvent = es.tail,
                        !.tail = e]
      ELSE IF insertIndex = 0
        THEN [es EXCEPT !.ev[e].nextEvent = es.head,
                        !.ev[es.head].prevEvent = e,
                        !.head = e]
      ELSE LET prevNode == events[insertIndex]
               nextNode == events[insertIndex + 1]
           IN [es EXCEPT !.ev[prevNode].nextEvent = e,
                         !.ev[e].prevEvent = prevNode,
                         !.ev[e].nextEvent = nextNode,
                         !.ev[nextNode].prevEvent = e]

\* optimizedInsertEvent(eventStack, new Event(t, ...)); `result` keeps what
\* eventStack.insertEvent would have made of the same stack and event.
DoOptimizedInsertEvent ==
  \E t \in EventTimes :
    /\ Len(eventStack.ev) < MaxStackEvents
    /\ LET e == Len(eventStack.ev) + 1
           fresh == NewEvent(eventStack, Event(t, "arrival", e, 1))
       IN /\ eventStack' = optimizedInsertEvent(fresh, e)
          /\ result' = [es |-> insertEvent(fresh, e), event |-> e]
          /\ pending' = pending \cup {e}
    /\ op' = "optimizedInsert"
    /\ popRun' = << >>
    /\ UNCHANGED <<ret, popHist, simVars, call>>

\* Any interleaving of optimizedInsertEvent and popEvent calls on one stack.
NextOptimized == DoOptimizedInsertEvent \/ DoPopEvent

SpecOptimized == InitStack /\ [][NextOptimized]_vars

\* -------------------------------------- optimizations.js: optimizeMemoryUsage
\* const maxDataPoints = 1000
maxDataPoints == 1000
\* Array lengths tried go up to MaxOverflow entries past a multiple of
\* maxDataPoints.
MaxOverflow == 2

\* Lengths around 0 and around one, two and three times maxDataPoints.
MemoryLengths ==
  (0..2) \cup {k * maxDataPoints + d : k \in 1..3, d \in (0 - 2)..MaxOverflow}

\* `for (let i = 0; i < arr.length; i += step) sampled.push(arr[i])`
\* (step = 0 cannot occur: it is computed only for arr.length > maxDataPoints).
Sampled(arr, step) ==
  [k \in 1..((Len(arr) + step - 1) \div step) |-> arr[(k - 1) * step + 1]]

\* The sampling of one node's statistics; the positions are taken from
\* queueLengths and used for both arrays.
SampledStats(stats) ==
  IF Len(stats.queueLengths) > maxDataPoints
    THEN LET step == Len(stats.queueLengths) \div maxDataPoints
             n == (Len(stats.queueLengths) + step - 1) \div step
         IN [stats EXCEPT
               !.queueLengths = Sampled(stats.queueLengths, step),
               !.times = [k \in 1..n |-> stats.times[(k - 1) * step + 1]]]
    ELSE stats

optimizeMemoryUsage(simulationResults) ==
  [simulationResults EXCEPT
     !.nodeStats = [id \in DOMAIN @ |-> SampledStats(@[id])],
     !.sojournTimes =
        IF Len(@) > maxDataPoints
          THEN Sampled(@, Len(@) \div maxDataPoints)
          ELSE @]

\* Simulation results whose arrays hold, at each position, the name of the
\* array and the position.
ResultsOfLengths(qlen, slen) ==
  [nodeStats |-> [id \in {1, 2} |->
                    [queueLengths |-> [i \in 1..qlen |-> <<"queueLength", id, i>>],
                     times |-> [i \in 1..qlen |-> <<"time", id, i>>]]],
   sojournTimes |-> [i \in 1..slen |-> <<"sojournTime", i>>]]

InitMemory ==
  /\ eventStack = NewEventStack
  /\ StackIdle
  /\ SimIdle
  /\ \E qlen \in MemoryLengths, slen \in MemoryLengths :
       call = ResultsOfLengths(qlen, slen)
  /\ result = << >>

DoOptimizeMemoryUsage ==
  /\ result = << >>
  /\ result' = optimizeMemoryUsage(call)
  /\ UNCHANGED <<call, eventStack, stackVars, simVars>>

NextMemory == DoOptimizeMemoryUsage

SpecMemory == InitMemory /\ [][NextMemory]_vars

\* ------------------------------------------------------ NetworkConfigPanel
\* The routing matrix is an object whose values are row objects.  Row objects
\* live in a heap (call.heap, identity = index); a matrix object is a mapping
\* from node id to the identity of its row, so that the spread copy
\* `{ ...routingMatrix }` is a new mapping onto the same rows.  Probabilities
\* are in tenths.
\* The panel shows at most MaxPanelNodes nodes and MaxPanelRows row objects
\* are created in one behaviour.
MaxPanelNodes == 3
MaxPanelRows == 3

\* The values of the input fields: e.target.value is a string ('' when the
\* field is empty); the handler also accepts the number 0.
PanelInputs ==
  { [isString |-> TRUE, empty |-> TRUE, value |-> 0],    \* ''
    [isString |-> TRUE, empty |-> FALSE, value |-> 0],   \* '0'
    [isString |-> TRUE, empty |-> FALSE, value |-> 5],   \* '0.5'
    [isString |-> TRUE, empty |-> FALSE, value |-> 20],  \* '2'
    [isString |-> FALSE, empty |-> FALSE, value |-> 0] } \* 0

\* parseFloat(text): NaN for '' (written UNDEFINED), the number otherwise.
parseFloat(input) == IF input.isString /\ input.empty THEN UNDEFINED ELSE input.value

\* `delete row[key]`
DeleteKey(row, key) == [k \in DOMAIN row \ {key} |-> row[k]]

\* The value of a matrix object: node id -> the content of its row.
MatrixValue(matrix, heap) == [n \in DOMAIN matrix |-> heap[matrix[n]]]

\* handleAddNode, with newNodeConnections = conns (target -> input).
handleAddNode(st, conns) ==
  LET newNodeId == Max(DOMAIN st.routingMatrix) + 1
      kept == {t \in DOMAIN conns :
                 LET probability == parseFloat(conns[t]) IN
                 probability # UNDEFINED /\ probability > 0 /\ probability <= 10}
      row == [t \in kept |-> parseFloat(conns[t])]
  IN [routingMatrix |-> (newNodeId :> (Len(st.heap) + 1)) @@ st.routingMatrix,
      heap |-> Append(st.heap, row)]

\* handleRemoveNode(nodeId): the entry is deleted from the copy, the
\* connections to the node from the rows themselves.
handleRemoveNode(st, nodeId) ==
  LET updatedMatrix == DeleteKey(st.routingMatrix, nodeId)
      refs == {updatedMatrix[n] : n \in DOMAIN updatedMatrix}
  IN [routingMatrix |-> updatedMatrix,
      heap |-> [r \in DOMAIN st.heap |->
                  IF /\ r \in refs
                     /\ nodeId \in DOMAIN st.heap[r]
                     /\ st.heap[r][nodeId] # 0
                    THEN DeleteKey(st.heap[r], nodeId)
                    ELSE st.heap[r]]]

\* handleRoutingChange(sourceNodeId, targetNodeId, probability)
handleRoutingChange(st, sourceNodeId, targetNodeId, probability) ==
  LET s1 == IF sourceNodeId \in DOMAIN st.routingMatrix THEN st
            ELSE [routingMatrix |-> (sourceNodeId :> (Len(st.heap) + 1))
                                      @@ st.routingMatrix,
                  heap |-> Append(st.heap, << >>)]
      ref == s1.routingMatrix[sourceNodeId]
  IN IF (~probability.isString /\ probability.value = 0)
        \/ (probability.isString /\ probability.empty)
       THEN [s1 EXCEPT !.heap[ref] = DeleteKey(@, targetNodeId)]
       ELSE [s1 EXCEPT !.heap[ref] = (targetNodeId :> parseFloat(probability)) @@ @]

\* The panel is mounted with a valid routing matrix held by the parent.
InitialMatrices ==
  { [routingMatrix |-> (1 :> 1 @@ 2 :> 2), heap |-> <<(2 :> 10), << >>>>],
    [routingMatrix |-> (1 :> 1 @@ 2 :> 2), heap |-> <<(2 :> 5), (1 :> 10)>>] }

InitPanel ==
  /\ eventStack = NewEventStack
  /\ StackIdle
  /\ SimIdle
  /\ call \in InitialMatrices
  /\ result = [op |-> "mount"]

\* Each handler ends with onRoutingMatrixChange(updatedMatrix): the parent
\* holds the updated matrix from then on.
DoAddNode ==
  /\ Cardinality(DOMAIN call.routingMatrix) < MaxPanelNodes
  /\ Len(call.heap) < MaxPanelRows
  /\ \E targets \in SUBSET DOMAIN call.routingMatrix :
       /\ Cardinality(targets) <= 1
       /\ \E conns \in [targets -> {i \in PanelInputs : i.isString}] :
            call' = handleAddNode(call, conns)
  /\ result' = [op |-> "addNode"]
  /\ UNCHANGED <<eventStack, stackVars, simVars>>

\* The Remove button is disabled while the matrix has two nodes or fewer.
DoRemoveNode ==
  /\ Cardinality(DOMAIN call.routingMatrix) > 2
  /\ \E nodeId \in DOMAIN call.routingMatrix :
       /\ call' = handleRemoveNode(call, nodeId)
       /\ result' = [op |-> "removeNode", nodeId |-> nodeId]
  /\ UNCHANGED <<eventStack, stackVars, simVars>>

\* The inputs of the table exist for sourceNodeId # targetNodeId.
DoRoutingChange ==
  /\ \E sourceNodeId \in DOMAIN call.routingMatrix,
        targetNodeId \in DOMAIN call.routingMatrix,
        probability \in PanelInputs :
       /\ sourceNodeId # targetNodeId
       /\ call' = handleRoutingChange(call, sourceNodeId, targetNodeId, probability)
  /\ result' = [op |-> "routingChange"]
  /\ UNCHANGED <<eventStack, stackVars, simVars>>

NextPanel == DoAddNode \/ DoRemoveNode \/ DoRoutingChange

SpecPanel == InitPanel /\ [][NextPanel]_vars

\* ------------------------------------------------ claims on the EventStack
TimeOf(e) == eventStack.ev[e].time

\* The position of event e in the sequence s of distinct events (0: absent).
IndexIn(s, e) == IF \E i \in 1..Len(s) : s[i] = e
                   THEN CHOOSE i \in 1..Len(s) : s[i] = e
                   ELSE 0

\* C1: every popEvent returns a pending event of minimum time, so the events
\* popped in a row (no insertEvent in between) come out in non-decreasing
\* time order, and once every inserted event has been popped the stack
\* isEmpty().
C1_PopsEarliest ==
  /\ [](\A i, j \in 1..Len(popRun) :
          i < j => TimeOf(popRun[i]) <= TimeOf(popRun[j]))
  /\ [](pending = {} => isEmpty(eventStack))
  /\ [][(op' = "pop" /\ ret' # NULL)
          => /\ ret' \in pending
             /\ \A e \in pending : TimeOf(ret') <= TimeOf(e)]_vars

\* C1 witness: times 1, 0, 2 inserted in that order (the 10, 5, 15 of the
\* test) and all three popped: second, first, third.
C1_Witness ==
  /\ Len(eventStack.ev) = 3
  /\ <<TimeOf(1), TimeOf(2), TimeOf(3)>> = <<1, 0, 2>>
  /\ popRun = <<2, 1, 3>>
  /\ isEmpty(eventStack)

\* C2: of two events of the same time, the one inserted first (the smaller
\* identity) is popped first: whenever the later one has been popped, the
\* earlier one was popped before it.
C2_TiesFifo ==
  \A a, b \in 1..Len(eventStack.ev) :
    (a < b /\ TimeOf(a) = TimeOf(b) /\ IndexIn(popHist, b) > 0)
      => (IndexIn(popHist, a) > 0 /\ IndexIn(popHist, a) < IndexIn(popHist, b))

\* C2 witness: A and B of equal time, an earlier event inserted between them
\* and a later one after them, were both pending together and both popped.
C2_Witness ==
  /\ Len(eventStack.ev) = 4
  /\ TimeOf(1) = 1 /\ TimeOf(2) = 0 /\ TimeOf(3) = 1 /\ TimeOf(4) = 2
  /\ popHist = <<2, 1, 3>>
  /\ popRun = popHist

\* C3: the events linked from head are exactly the events inserted and not
\* yet popped, each once.
C3_NoLossNoDuplicate ==
  /\ Range(Pending(eventStack)) = pending
  /\ Len(Pending(eventStack)) = Cardinality(pending)

\* C3 witness: an insertEvent after a popEvent, with three events pending.
C3_Witness ==
  /\ op = "insert"
  /\ Len(popHist) >= 1
  /\ Cardinality(pending) = 3
  /\ Len(Pending(eventStack)) = 3

\* C4: a new EventStack is empty, and popEvent on an empty stack returns null
\* and leaves head and tail null.
C4_PopOnEmpty ==
  /\ [](op = "new" => (isEmpty(eventStack) /\ eventStack.tail = NULL))
  /\ [][(isEmpty(eventStack) /\ op' = "pop")
          => (ret' = NULL /\ eventStack'.head = NULL /\ eventStack'.tail = NULL)]_vars

\* C4 witness: popEvent returned null on a stack emptied by earlier pops.
C4_Witness ==
  /\ op = "pop"
  /\ ret = NULL
  /\ Len(popHist) >= 1
  /\ eventStack.head = NULL /\ eventStack.tail = NULL

\* ------------------------------------------ claims on simulateQueueNetwork
Processed == lastIter.kind \in {"arrival", "departure"}

PendingEvents == Range(Pending(eventStack))

\* C5: when the event at the head of the timeline lies beyond
\* simulationPeriod + warmupPeriod, the iteration that pops it ends the run
\* and nothing is produced from the event: node state, counters, statistics,
\* sojourn times, job records and snapshots are unchanged, no event is
\* constructed and the popped event is not pending any more.
C5_HorizonEndsRun ==
  [][(/\ pc = "loop"
      /\ time < totalSimulationTime
      /\ eventStack.head # NULL
      /\ eventStack.ev[eventStack.head].time > totalSimulationTime)
     => (/\ pc' = "done"
         /\ nodes' = nodes
         /\ nodeStats' = nodeStats
         /\ jobTimes' = jobTimes
         /\ processedJobs' = processedJobs
         /\ totalSojournTimes' = totalSojournTimes
         /\ snapshots' = snapshots
         /\ jobIdCounter' = jobIdCounter
         /\ Len(eventStack'.ev) = Len(eventStack.ev)
         /\ eventStack.head \notin Range(Pending(eventStack')))]_vars

\* C5 witness: a run that processed events and served a job ended on an
\* event beyond the horizon.
C5_Witness ==
  /\ pc = "done"
  /\ lastIter.kind = "horizon"
  /\ time > totalSimulationTime
  /\ processedJobs >= 1

\* C6: the clock never decreases, and every pending event carries a time
\* greater than or equal to the clock.
C6_ClockMonotone ==
  /\ [](pc \in {"loop", "done", "error"}
          => \A e \in PendingEvents : eventStack.ev[e].time >= time)
  /\ [][time' >= time]_vars

\* C6 witness: an event processed at a later time than an earlier one, with
\* an event of the current time still pending.
C6_Witness ==
  /\ pc = "loop"
  /\ Processed
  /\ time > 0
  /\ Len(snapshots) >= 1
  /\ snapshots[1].time < time
  /\ \E e \in PendingEvents : eventStack.ev[e].time = time

\* The routing row consulted by the departure processed last.
LastRow ==
  LET nodeId == eventStack.ev[lastIter.event].nodeId
  IN IF nodeId \in DOMAIN cfg.routingMatrix THEN cfg.routingMatrix[nodeId]
                                            ELSE << >>

\* C7 (as claimed): after a departure from a node whose row is empty or sums
\* to 0 the job has left the system, and after a departure from a node whose
\* row is a single entry of probability 1.0 an arrival of the job at that
\* destination is pending at the current time.
C7_ZeroRowExits ==
  (lastIter.kind = "departure" /\ thrown = "none")
    => LET job == eventStack.ev[lastIter.event].jobId IN
       /\ RowSum(LastRow) = 0 => job \in Range(exitOrder)
       /\ \A d \in DOMAIN LastRow :
            (DOMAIN LastRow = {d} /\ LastRow[d] = 10)
              => \E e \in PendingEvents :
                   /\ eventStack.ev[e].eventType = "arrival"
                   /\ eventStack.ev[e].jobId = job
                   /\ eventStack.ev[e].nodeId = d
                   /\ eventStack.ev[e].time = time

\* A routing table with a negative probability or a row that sums to more
\* than 1.
Malformed(routingMatrix) ==
  \E n \in DOMAIN routingMatrix :
    \/ \E d \in DOMAIN routingMatrix[n] : routingMatrix[n][d] < 0
    \/ RowSum(routingMatrix[n]) > 10

\* C8 (as claimed): under a malformed routing table no event is processed
\* and no node state is mutated.
C8_MalformedRejected ==
  Malformed(cfg.routingMatrix)
    => (~Processed /\ nodes = cfg.nodes)

\* C9 (as claimed): generateRandomSample throws for every distribution name
\* that is not a supported kind.
C9_UnsupportedRaises ==
  (DOMAIN result # {} /\ call.distributionType \notin DistributionKinds)
    => result.threw

\* C10 (as claimed): the i-th recorded sojourn time is the exit time of the
\* i-th job that left minus the time of that job's first arrival, and is >= 0.
C10_SojournFromFirstArrival ==
  \A i \in 1..Len(totalSojournTimes) :
    /\ totalSojournTimes[i] = jobEndTimes[exitOrder[i]] - firstArrival[exitOrder[i]]
    /\ totalSojournTimes[i] >= 0

\* ---------------------------------------------------- claims on the router
\* The cumulative probability of the destinations up to and including k, in
\* ascending order of destination.
RECURSIVE SumOver(_, _)
SumOver(row, S) ==
  IF S = {} THEN 0
  ELSE LET k == CHOOSE x \in S : TRUE IN row[k] + SumOver(row, S \ {k})

Cumulative(row, k) == SumOver(row, {j \in DOMAIN row : j <= k})

\* The first destination, in ascending order, whose cumulative probability
\* is >= rand; undefined when there is none.
FirstReaching(row, rand) ==
  LET reaching == {k \in DOMAIN row : Cumulative(row, k) >= rand} IN
  IF reaching = {} THEN UNDEFINED
  ELSE CHOOSE k \in reaching : \A j \in reaching : k <= j

\* C11: routing is a function of the table and the draw: the destinations
\* are walked in ascending order and the first one whose cumulative
\* probability is >= the draw is chosen, so two routing decisions over the
\* same table on the same draw choose the same destination.
C11_RoutingDeterministic ==
  /\ \A i \in 1..Len(result) :
       /\ result[i].exit <=> DOMAIN call.row = {}
       /\ ~result[i].exit =>
            result[i].nextNodeId = FirstReaching(call.row, call.draws[i])
  /\ \A i, j \in 1..Len(result) :
       call.draws[i] = call.draws[j] => result[i] = result[j]

\* Two draws over one table of several destinations chose two different
\* destinations, the second one not the first of the row.
C11_Witness ==
  /\ Len(result) = 2
  /\ Cardinality(DOMAIN call.row) = 3
  /\ result[1].nextNodeId = 1
  /\ result[2].nextNodeId = 3

\* -------------------------------------------------- claims on the snapshot
\* What a holder of the snapshot s reads from it while the engine's objects
\* hold stats and sojourn.
Seen(s, stats, sojourn) ==
  [time |-> s.time, processedJobs |-> s.processedJobs,
   simulationProgress |-> s.simulationProgress,
   nodeStats |-> IF s.nodeStats.shared THEN stats ELSE s.nodeStats.value,
   totalSojournTimes |-> IF s.totalSojournTimes.shared
                           THEN sojourn ELSE s.totalSojournTimes.value]

\* C12: the snapshot handed to updateCallback is a copy: a callback that
\* mutates the snapshot's arrays changes neither the engine's nodeStats,
\* sojourn list, node queues nor its timeline, and no later step of the
\* engine changes what a snapshot already handed out reads.
C12_SnapshotIsACopy ==
  [][/\ lastIter'.kind = "callback" =>
          UNCHANGED <<nodeStats, totalSojournTimes, nodes, eventStack, time,
                      processedJobs, jobTimes, jobStartTimes, jobEndTimes>>
     /\ lastIter'.kind # "callback" =>
          /\ Len(snapshots') >= Len(snapshots)
          /\ \A i \in 1..Len(snapshots) :
               Seen(snapshots'[i], nodeStats', totalSojournTimes')
                 = Seen(snapshots[i], nodeStats, totalSojournTimes)]_vars

\* A snapshot whose sojourn list and queue lengths the callback pushed onto,
\* after which the engine recorded another exit and further statistics.
C12_Witness ==
  /\ snapshots # << >>
  /\ lastIter.kind = "departure"
  /\ LET s == snapshots[1] n == SortedKeys(DOMAIN nodeStats)[1] IN
     /\ -1 \in Range(s.totalSojournTimes.value)
     /\ -1 \in Range(s.nodeStats.value[n].queueLengths)
     /\ Len(totalSojournTimes) >= Len(s.totalSojournTimes.value)
     /\ Len(nodeStats[n].queueLengths) >= Len(s.nodeStats.value[n].queueLengths)

\* ------------------------------------------------ claims on stopping a run
\* C13: the loop polls the caller's stop request once per iteration, so
\* once a stop has been requested no further event is popped and processed.
C13_StopHonoured ==
  [][stopRequested =>
       ~(/\ lastIter'.kind \in {"arrival", "departure"}
         /\ eventStack' # eventStack)]_vars

\* ------------------------------------------------------ claims on the end
\* The run has ended: simulateQueueNetwork returned or threw.
Ended == pc \in {"done", "error"}

\* The model's event budget never stops an iteration that the code would run.
BudgetNotBinding ==
  (pc = "loop" /\ time < totalSimulationTime)
    => Len(eventStack.ev) + 2 <= MaxPositiveEvents

\* C14 as claimed: a run that returns left its loop either on popping an
\* event beyond simulationPeriod + warmupPeriod or on an empty timeline.
C14_EndsBeyondOrEmpty ==
  pc = "done" => lastIter.kind \in {"horizon", "empty"}

\* The events popped so far: constructed and no longer on the timeline.
PoppedCount == Len(eventStack.ev) - Len(Pending(eventStack))

\* C14, amended: with every sampled duration positive, every run ends: the
\* first arrivals are scheduled once, every iteration that stays in the loop
\* pops one more event, and a run constructs a bounded number of events
\* before its horizon.  A run that returns left its loop on popping an event
\* beyond the horizon, on an empty timeline (no error), or at the loop
\* condition after processing an event whose time is exactly
\* simulationPeriod + warmupPeriod.
C14_Terminates ==
  /\ []BudgetNotBinding
  /\ [](PoppedCount <= MaxPositiveEvents)
  /\ [][/\ pc = "init" => pc' \in {"loop", "error"}
        /\ pc = "loop" => pc' \in {"loop", "done", "error"}
        /\ (pc = "loop" /\ pc' = "loop") => PoppedCount' = PoppedCount + 1
        /\ Ended => pc' = pc]_vars
  /\ [](pc = "done" =>
         /\ thrown = "none"
         /\ lastIter.kind \in {"horizon", "empty", "exit"}
         /\ lastIter.kind = "horizon" => time > totalSimulationTime
         /\ lastIter.kind = "empty" =>
              isEmpty(eventStack) /\ time < totalSimulationTime
         /\ lastIter.kind = "exit" => time = totalSimulationTime)

\* A run that returned at the loop condition, the clock on the horizon, after
\* jobs were processed and with events still pending.
C14_Witness ==
  /\ pc = "done"
  /\ lastIter.kind = "exit"
  /\ processedJobs > 0
  /\ ~isEmpty(eventStack)

\* ------------------------------------------ claims on the Jackson solver
\* The traffic equations' right-hand side at node i for the rates old:
\* the external rate of i plus the flows routed into i.
TrafficRhs(c, old, i) ==
  LET froms == DOMAIN c.routingProbabilities
      flow == [f \in froms |->
                 IF i \in DOMAIN c.routingProbabilities[f]
                   THEN (RateOr0(old, f) * c.routingProbabilities[f][i]) \div 10
                   ELSE 0]
  IN RateOr0(c.externalArrivalRates, i) + SumOf(flow, froms)

\* The two-node tandem: 5 jobs per time unit into node 1, all of them routed
\* on to node 2, service rate 10 at both nodes.
IsTandem(c) ==
  /\ c.externalArrivalRates = (1 :> 5) @@ (2 :> 0)
  /\ 1 \in DOMAIN c.routingProbabilities
  /\ c.routingProbabilities[1] = (2 :> 10)
  /\ c.serviceRates = (1 :> 10) @@ (2 :> 10)

\* C15: every pass of the solver sets each rate to the node's external rate
\* plus the flows routed into it under the previous rates, starting from the
\* external rates; for the two-node tandem the solver ends with rates 5 and 5
\* and theoretical utilization 1/2 at both nodes.
C15_TrafficEquations ==
  /\ [][result'.iterations = result.iterations + 1 =>
          \A i \in DOMAIN result'.totalArrivalRates :
            result'.totalArrivalRates[i]
              = TrafficRhs(call, result.totalArrivalRates, i)]_vars
  /\ []((result.pc = "done" /\ IsTandem(call)) =>
          /\ result.totalArrivalRates = (1 :> 5) @@ (2 :> 5)
          /\ \A n \in {1, 2} :
               LET u == result.returned.theoreticalUtilization[n]
               IN u.den > 0 /\ 2 * u.num = u.den)

\* The returned object says that the solver did not converge.
ReportsNonConvergence(returned) ==
  \/ "converged" \in DOMAIN returned /\ returned.converged = FALSE
  \/ "error" \in DOMAIN returned

\* C16: the solver never runs more than 100 passes, and a solver that stops
\* on its budget with the last change still above the tolerance returns a
\* result that reports non-convergence.
C16_BudgetReported ==
  /\ result.iterations <= MaxIterations
  /\ (result.pc = "done" /\ ExceedsTolerance(result.maxDiff)) =>
       /\ result.iterations = MaxIterations
       /\ ReportsNonConvergence(result.returned)

\* ------------------------------------------------ claims on the batch means
\* C17: for n data values and a batch size b >= 1 the function returns
\* floor(n / b) batches in three arrays of that length, numbered 1, 2, ...;
\* the mean of batch i is the arithmetic mean of the b consecutive values
\* data[(i-1)b .. ib-1] (so it lies between the least and the largest value
\* of the data), and the n mod b trailing values change nothing.
C17_BatchMeans ==
  (result # << >> /\ call.batchSize >= 1) =>
    LET data == call.data
        b == call.batchSize
        n == Len(data)
        k == n \div b
    IN /\ ~result.threw
       /\ Len(result.batchMeans) = k
       /\ Len(result.batchConfIntervals) = k
       /\ Len(result.batchNumbers) = k
       /\ \A i \in 1..k :
            LET batch == [x \in ((i - 1) * b + 1)..(i * b) |-> data[x]]
                mean == result.batchMeans[i]
            IN /\ result.batchNumbers[i] = i
               /\ mean.den = b
               /\ mean.num = SumOf(batch, DOMAIN batch)
               /\ \E y \in 1..n : data[y] * b <= mean.num
               /\ \E z \in 1..n : mean.num <= data[z] * b
       /\ result = optimizedCalculateBatchMeans(SubSeq(data, 1, k * b), b)

\* Two batches of two unequal values each were formed and a trailing value
\* was left over.
C17_Witness ==
  /\ result # << >>
  /\ call.batchSize = 2
  /\ Len(call.data) = 5
  /\ Len(result.batchMeans) = 2
  /\ result.batchMeans[1] # result.batchMeans[2]
  /\ call.data[3] # call.data[4]

\* ---------------------------------------------- claims on empty statistics
\* C18: statistics of no samples are defined: optimizedCalculateBatchMeans on
\* an empty data set, or on fewer values than one batch, returns zero
\* batches, and a run that returns with no job having left the system
\* reports the mean sojourn time 0, not the NaN of 0 / 0.
C18_ZeroSamples ==
  /\ (result # << >> /\ call.batchSize >= 1 /\ Len(call.data) < call.batchSize) =>
       /\ ~result.threw
       /\ result.batchMeans = << >>
       /\ result.batchConfIntervals = << >>
       /\ result.batchNumbers = << >>
  /\ (pc = "done" /\ exitOrder = << >>) =>
       /\ ReturnValue.overallMeanSojournTime.den # 0
       /\ ReturnValue.overallMeanSojournTime.num = 0
       /\ ReturnValue.totalSojournTimes = << >>
       /\ ReturnValue.processedJobs = 0

\* A run that processed arrivals and returned before any job left, and a
\* batch-means call on no data at all.
C18_Witness ==
  /\ pc = "done"
  /\ exitOrder = << >>
  /\ \E n \in DOMAIN nodeStats : nodeStats[n].arrivals > 0
  /\ result # << >>
  /\ call.data = << >>
  /\ call.batchSize = 2

\* ------------------------------------------------- claims on the samplers
\* The time-valued distributions.
TimeValuedKinds ==
  {"exponential", "erlang", "hyperexponential", "hypoexponential", "coxian",
   "weibull"}

\* C19: every value sampled from a time-valued distribution is strictly
\* greater than 0 for every draw U in [0, 1), U = 0 included (stated for the
\* time-valued kinds whose sampler the model computes).
C19_SamplesPositive ==
  (result # << >> /\ call.distributionType \in TimeValuedKinds \cap KindsModelled)
    => /\ ~result.threw
       /\ result.isNumber
       /\ result.value > 0

\* ---------------------------------------------- claims on the returned object
\* C20: the object simulateQueueNetwork returns carries meanSojournTime,
\* confidenceInterval, nodeStats, utilizations (one per node), sojournTimes
\* and the number of processed jobs.
C20_ResultFields ==
  pc = "done" =>
    /\ {"meanSojournTime", "confidenceInterval", "nodeStats", "utilizations",
        "sojournTimes", "processedJobs"} \subseteq DOMAIN ReturnValue
    /\ DOMAIN ReturnValue.utilizations = DOMAIN cfg.nodes

\* ------------------------------------------- claims on the arrival streams
\* The pending Arrival events at node n that carry a job which has not yet
\* entered the network.
PendingExternalArrivals(n) ==
  {e \in PendingEvents :
     /\ eventStack.ev[e].eventType = "arrival"
     /\ eventStack.ev[e].nodeId = n
     /\ eventStack.ev[e].jobId \notin DOMAIN jobTimes}

\* C21: at every event boundary each node with a positive external arrival
\* rate has exactly one pending external Arrival; the Arrival of a job routed
\* from another node adds no arrival stream.
C21_OneExternalStream ==
  pc = "loop" =>
    \A n \in DOMAIN cfg.nodes :
      (n \in DOMAIN cfg.externalArrivalRates /\ cfg.externalArrivalRates[n] > 0)
        => Cardinality(PendingExternalArrivals(n)) = 1

\* ------------------------------------------------- claims on the busy time
\* C22: at every event boundary the accumulated busy time of every node is
\* >= 0 and at most the simulated time elapsed, and it never decreases.
C22_BusyTimeBounded ==
  /\ [](\A n \in DOMAIN nodes :
          /\ nodes[n].totalServiceTime >= 0
          /\ nodes[n].totalServiceTime <= time)
  /\ [][\A n \in DOMAIN nodes :
          nodes'[n].totalServiceTime >= nodes[n].totalServiceTime]_vars

\* ------------------------------------- claims on the steps of one iteration
\* In a step that processes an event: the event, its node, and the events
\* the step constructs.
StepEvent == eventStack.ev[lastIter'.event]

StepNode == StepEvent.nodeId

NewEvents == (Len(eventStack.ev) + 1)..Len(eventStack'.ev)

NewDepartures == {i \in NewEvents : eventStack'.ev[i].eventType = "departure"}

NewArrivals == {i \in NewEvents : eventStack'.ev[i].eventType = "arrival"}

\* The step processes an Arrival, resp. a Departure, at a node of the
\* network and the iteration runs to its end.
ArrivalStep ==
  /\ lastIter'.kind = "arrival"
  /\ StepNode \in DOMAIN nodes
  /\ pc' = "loop"

DepartureStep ==
  /\ lastIter'.kind = "departure"
  /\ StepNode \in DOMAIN nodes
  /\ pc' = "loop"

\* C23: an Arrival processed at an idle node appends the job to the node's
\* queue, makes the node busy, schedules exactly one Departure, for that job
\* at that node at now + the sampled service duration, and sets lastBusyTime
\* to the current time.
C23_IdleArrival ==
  [][(ArrivalStep /\ ~nodes[StepNode].busy) =>
       LET n == StepNode
           now == StepEvent.time
       IN /\ nodes'[n].queue = Append(nodes[n].queue, StepEvent.jobId)
          /\ nodes'[n].busy
          /\ Cardinality(NewDepartures) = 1
          /\ \A d \in NewDepartures :
               /\ eventStack'.ev[d].jobId = StepEvent.jobId
               /\ eventStack'.ev[d].nodeId = n
               /\ Len(nodes'[n].serviceTimes) = Len(nodes[n].serviceTimes) + 1
               /\ eventStack'.ev[d].time
                    = now + nodes'[n].serviceTimes[Len(nodes'[n].serviceTimes)]
               /\ d \in Range(Pending(eventStack'))
          /\ time' = now
          /\ nodes'[n].lastBusyTime = now]_vars

\* C24: an Arrival processed at a busy node appends the job at the tail of
\* the node's queue and schedules no Departure; the busy flag, lastBusyTime
\* and the order of the jobs already queued are unchanged (as are the busy
\* time and the recorded service times).
C24_BusyArrival ==
  [][(ArrivalStep /\ nodes[StepNode].busy) =>
       LET n == StepNode IN
       /\ nodes'[n] = [nodes[n] EXCEPT !.queue = Append(@, StepEvent.jobId)]
       /\ nodes'[n].busy
       /\ NewDepartures = {}
       /\ \A m \in DOMAIN nodes \ {n} : nodes'[m] = nodes[m]]_vars

\* An Arrival was processed at a node that was serving one job and holding
\* another: three jobs are queued in their order of arrival.
C24_Witness ==
  /\ lastIter.kind = "arrival"
  /\ pc = "loop"
  /\ LET n == eventStack.ev[lastIter.event].nodeId IN
     /\ n \in DOMAIN nodes
     /\ Len(nodes[n].queue) = 3
     /\ nodes[n].queue[3] = eventStack.ev[lastIter.event].jobId
     /\ nodes[n].busy

\* C25: a Departure that leaves a job in the node's queue keeps the node busy
\* and schedules exactly one Departure, for the new head job at that node at
\* now + a newly sampled service duration.
C25_NextService ==
  [][(DepartureStep /\ Len(nodes[StepNode].queue) >= 2) =>
       LET n == StepNode
           now == StepEvent.time
       IN /\ nodes[n].busy
          /\ nodes'[n].busy
          /\ nodes'[n].queue = Tail(nodes[n].queue)
          /\ Cardinality(NewDepartures) = 1
          /\ \A d \in NewDepartures :
               /\ eventStack'.ev[d].jobId = nodes[n].queue[2]
               /\ eventStack'.ev[d].nodeId = n
               /\ Len(nodes'[n].serviceTimes) = Len(nodes[n].serviceTimes) + 1
               /\ eventStack'.ev[d].time
                    = now + nodes'[n].serviceTimes[Len(nodes'[n].serviceTimes)]
               /\ d \in Range(Pending(eventStack'))
          /\ nodes'[n].lastBusyTime = nodes[n].lastBusyTime
          /\ nodes'[n].totalServiceTime = nodes[n].totalServiceTime]_vars

\* A Departure was processed at a node that still holds two jobs, and the
\* Departure of the new head is pending at a later time.
C25_Witness ==
  /\ lastIter.kind = "departure"
  /\ pc = "loop"
  /\ LET n == eventStack.ev[lastIter.event].nodeId IN
     /\ Len(nodes[n].queue) = 2
     /\ nodes[n].busy
     /\ \E e \in PendingEvents :
          /\ eventStack.ev[e].eventType = "departure"
          /\ eventStack.ev[e].nodeId = n
          /\ eventStack.ev[e].jobId = nodes[n].queue[1]
          /\ eventStack.ev[e].time > time

\* C26: a Departure that leaves the node's queue empty makes the node idle,
\* adds now minus the time the node last became busy to its busy time, clears
\* lastBusyTime and schedules no Departure for the node.
C26_GoIdle ==
  [][(DepartureStep /\ Len(nodes[StepNode].queue) = 1) =>
       LET n == StepNode
           now == StepEvent.time
       IN /\ ~nodes'[n].busy
          /\ nodes'[n].queue = << >>
          /\ n \in DOMAIN busySince
          /\ nodes'[n].totalServiceTime
               = nodes[n].totalServiceTime + (now - busySince[n])
          /\ nodes'[n].lastBusyTime = NoTime
          /\ \A d \in NewDepartures : eventStack'.ev[d].nodeId # n]_vars

\* C27: every processed Departure either schedules exactly one Arrival for
\* the departing job, at a node of the network and at the current time, or
\* makes the job exit (processedJobs grows by one and one sojourn time is
\* appended); it never schedules an Arrival at a node that does not exist.
C27_RouteOrExit ==
  [][DepartureStep =>
       LET job == StepEvent.jobId
           now == StepEvent.time
           routed == {i \in NewArrivals : eventStack'.ev[i].jobId = job}
           exits == /\ processedJobs' = processedJobs + 1
                    /\ Len(totalSojournTimes') = Len(totalSojournTimes) + 1
           stays == /\ processedJobs' = processedJobs
                    /\ totalSojournTimes' = totalSojournTimes
       IN /\ \/ /\ Cardinality(routed) = 1
                /\ \A i \in routed : /\ eventStack'.ev[i].nodeId \in DOMAIN cfg.nodes
                                     /\ eventStack'.ev[i].time = now
                /\ stays
             \/ /\ routed = {}
                /\ exits
          /\ \A i \in NewArrivals : eventStack'.ev[i].nodeId \in DOMAIN cfg.nodes]_vars

\* C28: initialization schedules exactly one first Arrival, with a fresh job
\* id, for each node whose external arrival rate is positive and none for a
\* node whose rate is 0 or absent; a job id given to an external arrival
\* (at initialization or when an Arrival is processed) was never used before.
ExternalRatePositive(n) ==
  n \in DOMAIN cfg.externalArrivalRates /\ cfg.externalArrivalRates[n] > 0

UsedJobIds == {eventStack.ev[j].jobId : j \in 1..Len(eventStack.ev)}

C28_FirstArrivals ==
  [][/\ (pc = "init" /\ pc' = "loop") =>
          /\ NewEvents = NewArrivals
          /\ NewEvents \subseteq Range(Pending(eventStack'))
          /\ \A n \in DOMAIN cfg.nodes \cup DOMAIN cfg.externalArrivalRates :
               Cardinality({i \in NewArrivals : eventStack'.ev[i].nodeId = n})
                 = IF ExternalRatePositive(n) THEN 1 ELSE 0
     /\ lastIter'.kind \in {"init", "arrival"} =>
          /\ \A i \in NewArrivals :
               /\ eventStack'.ev[i].jobId \notin UsedJobIds
               /\ eventStack'.ev[i].jobId \notin DOMAIN jobTimes
          /\ \A i, j \in NewArrivals :
               i # j => eventStack'.ev[i].jobId # eventStack'.ev[j].jobId]_vars

\* Two nodes with positive rates got their first Arrivals under different job
\* ids, and a later external Arrival has taken a third id.
C28_Witness ==
  /\ pc = "loop"
  /\ Cardinality({n \in DOMAIN cfg.nodes : ExternalRatePositive(n)}) = 2
  /\ jobIdCounter = 3
  /\ Cardinality(UsedJobIds) = 3

\* C29: queue-length samples are collected only after warm-up.  Each
\* processed event with time >= warmupPeriod appends exactly one sample
\* (time, queue length) for every node, an event with time < warmupPeriod
\* appends none; so all nodes have the same number of samples, queueLengths
\* and times have equal length, and the sample times are non-decreasing and
\* lie in [warmupPeriod, simulationPeriod + warmupPeriod].
SamplesWellFormed ==
  \A n \in DOMAIN nodeStats :
    LET t == nodeStats[n].times IN
    /\ Len(nodeStats[n].queueLengths) = Len(t)
    /\ \A m \in DOMAIN nodeStats : Len(nodeStats[m].times) = Len(t)
    /\ \A i \in 1..Len(t) :
         /\ t[i] >= cfg.warmupPeriod
         /\ t[i] <= totalSimulationTime
         /\ i > 1 => t[i - 1] <= t[i]

C29_SamplesAfterWarmup ==
  /\ [](pc # "idle" => SamplesWellFormed)
  /\ [][(lastIter'.kind \in {"arrival", "departure"} /\ pc' = "loop") =>
          LET now == StepEvent.time IN
          \A n \in DOMAIN nodeStats :
            IF now >= cfg.warmupPeriod
              THEN /\ nodeStats'[n].queueLengths
                        = Append(nodeStats[n].queueLengths, Len(nodes'[n].queue))
                   /\ nodeStats'[n].times = Append(nodeStats[n].times, now)
              ELSE /\ nodeStats'[n].queueLengths = nodeStats[n].queueLengths
                   /\ nodeStats'[n].times = nodeStats[n].times]_vars

\* Events were processed before the end of warm-up without a sample, and one
\* at or after it with a sample.
C29_Witness ==
  /\ pc = "loop"
  /\ cfg.warmupPeriod > 0
  /\ \E n \in DOMAIN nodeStats :
       /\ Len(nodeStats[n].times) = 1
       /\ nodeStats[n].times[1] = time
       /\ nodeStats[n].arrivals + nodeStats[n].departures >= 3

\* C30: the callback is invoked after a processed event if and only if a
\* callback is registered and the simulated time since the last callback
\* (since time 0 for the first) is at least updateInterval (0.01); so the
\* times of successive snapshots are strictly increasing and at least 0.01
\* apart, and every snapshot's simulationProgress lies in [0, 100].
SnapshotsSpaced ==
  /\ lastUpdateTime = IF snapshots = << >> THEN 0
                      ELSE snapshots[Len(snapshots)].time
  /\ \A i \in 1..Len(snapshots) :
       /\ snapshots[i].simulationProgress >= 0
       /\ snapshots[i].simulationProgress <= 100
       /\ snapshots[i].time - (IF i = 1 THEN 0 ELSE snapshots[i - 1].time)
            >= UpdateInterval
       /\ i > 1 => snapshots[i - 1].time < snapshots[i].time

C30_CallbackThrottled ==
  /\ [](pc # "idle" => SnapshotsSpaced)
  /\ [][IF /\ lastIter'.kind \in {"arrival", "departure"}
           /\ pc' = "loop"
           /\ cfg.updateCallback
           /\ StepEvent.time - lastUpdateTime >= UpdateInterval
          THEN /\ Len(snapshots') = Len(snapshots) + 1
               /\ SubSeq(snapshots', 1, Len(snapshots)) = snapshots
               /\ snapshots'[Len(snapshots')].time = StepEvent.time
          ELSE snapshots' = snapshots]_vars

\* Two callbacks were made, exactly updateInterval apart, and an event
\* processed between them went without one.
C30_Witness ==
  /\ pc = "loop"
  /\ cfg.updateCallback
  /\ Len(snapshots) = 2
  /\ snapshots[2].time - snapshots[1].time = UpdateInterval
  /\ snapshots[2].time = time
  /\ \E n \in DOMAIN nodeStats :
       nodeStats[n].arrivals + nodeStats[n].departures >= 3

\* C31: the jobTimes entry of a job is created when the job first arrives and
\* removed when the job exits, so at every event boundary the job records
\* held are exactly those of the jobs still inside the network.
JobsInside == DOMAIN firstArrival \ Range(exitOrder)

C31_JobRecordsBounded ==
  pc \in {"loop", "done"} => DOMAIN jobTimes = JobsInside

\* C32: optimizedInsertEvent is equivalent to EventStack.insertEvent: from the
\* same well-formed stack and the same event both leave the same head-to-tail
\* sequence of events (same times, same order among equal times), with the
\* same links and tail, and the links are consistent.
LinksConsistent(es) ==
  LET p == Pending(es) IN
  /\ (es.head = NULL) = (es.tail = NULL)
  /\ Len(p) <= Len(es.ev)
  /\ p # << >> =>
       /\ es.ev[p[1]].prevEvent = NULL
       /\ es.tail = p[Len(p)]
       /\ es.ev[es.tail].nextEvent = NULL
  /\ \A i \in 1..(Len(p) - 1) : es.ev[p[i + 1]].prevEvent = p[i]

C32_OptimizedInsertEquivalent ==
  op = "optimizedInsert" =>
    /\ Pending(eventStack) = Pending(result.es)
    /\ eventStack = result.es
    /\ LinksConsistent(eventStack)

\* The optimized insert has put an event between two pending events, behind
\* an event of the same time.
C32_Witness ==
  /\ op = "optimizedInsert"
  /\ LET p == Pending(eventStack) IN
     /\ Len(p) = 4
     /\ p[3] = result.event
     /\ TimeOf(p[2]) = TimeOf(p[3])
     /\ TimeOf(p[1]) < TimeOf(p[2])
     /\ TimeOf(p[3]) < TimeOf(p[4])

\* C33: after optimizeMemoryUsage every node's queueLengths and times and the
\* sojournTimes array hold at most maxDataPoints entries; arrays of at most
\* maxDataPoints entries are unchanged; and a node's retained queueLengths[i]
\* and times[i] come from the same original position, in the original order.
AtMostMaxDataPoints(r) ==
  /\ \A id \in DOMAIN r.nodeStats :
       /\ Len(r.nodeStats[id].queueLengths) <= maxDataPoints
       /\ Len(r.nodeStats[id].times) <= maxDataPoints
  /\ Len(r.sojournTimes) <= maxDataPoints

SmallArraysUnchanged ==
  /\ \A id \in DOMAIN call.nodeStats :
       Len(call.nodeStats[id].queueLengths) <= maxDataPoints
         => result.nodeStats[id] = call.nodeStats[id]
  /\ Len(call.sojournTimes) <= maxDataPoints
       => result.sojournTimes = call.sojournTimes

SamplesAligned ==
  \A id \in DOMAIN result.nodeStats :
    LET q == result.nodeStats[id].queueLengths
        t == result.nodeStats[id].times
    IN /\ Len(q) = Len(t)
       /\ \A i \in 1..Len(q) :
            /\ q[i][3] = t[i][3]
            /\ q[i] = call.nodeStats[id].queueLengths[q[i][3]]
            /\ t[i] = call.nodeStats[id].times[t[i][3]]
            /\ i > 1 => q[i - 1][3] < q[i][3]

C33_MemoryBounded ==
  result # << >> =>
    /\ AtMostMaxDataPoints(result)
    /\ SmallArraysUnchanged
    /\ SamplesAligned

\* C34: after any sequence of handleAddNode, handleRemoveNode and
\* handleRoutingChange calls from a valid routing matrix, every probability
\* in the matrix given to onRoutingMatrixChange is a number in (0, 1], no row
\* refers to a removed node, and the matrix object the parent held before
\* the call is not mutated in place.
C34_PanelKeepsMatrixValid ==
  /\ [](LET m == MatrixValue(call.routingMatrix, call.heap) IN
        \A n \in DOMAIN m : \A t \in DOMAIN m[n] :
           /\ m[n][t] > 0
           /\ m[n][t] <= 10
           /\ t \in DOMAIN m)
  /\ [][MatrixValue(call.routingMatrix, call'.heap)
         = MatrixValue(call.routingMatrix, call.heap)]_vars

\* C35: at every event boundary of a run started with all nodes idle and
\* empty, a node is busy if and only if its queue is non-empty.
C35_BusyIffQueued ==
  pc \in {"loop", "done"} =>
    \A n \in DOMAIN nodes : nodes[n].busy = (nodes[n].queue # << >>)

\* A node has gone through idle, busy with a waiting job, and is busy still
\* after a Departure.
C35_Witness ==
  /\ pc = "loop"
  /\ lastIter.kind = "departure"
  /\ \E n \in DOMAIN nodes : nodes[n].busy /\ Len(nodes[n].queue) = 1
  /\ \E n \in DOMAIN nodes : ~nodes[n].busy /\ nodeStats[n].departures > 0

\* C36: at every event boundary the timeline holds exactly one pending
\* Departure for each busy node and none for an idle node, and its job is
\* the job at the head of the node's queue; so a processed Departure removes
\* from the queue the job the event names and never shifts an empty queue.
PendingDepartures(n) ==
  {e \in PendingEvents : /\ eventStack.ev[e].eventType = "departure"
                         /\ eventStack.ev[e].nodeId = n}

C36_OneDeparturePerBusyNode ==
  /\ [](pc = "loop" =>
          \A n \in DOMAIN nodes :
            IF nodes[n].busy
              THEN /\ Cardinality(PendingDepartures(n)) = 1
                   /\ nodes[n].queue # << >>
                   /\ \A e \in PendingDepartures(n) :
                        eventStack.ev[e].jobId = nodes[n].queue[1]
              ELSE PendingDepartures(n) = {})
  /\ [][lastIter'.kind = "departure" =>
          /\ StepNode \in DOMAIN nodes
          /\ nodes[StepNode].queue # << >>
          /\ nodes[StepNode].queue[1] = StepEvent.jobId
          /\ nodes'[StepNode].queue = Tail(nodes[StepNode].queue)]_vars

\* Two nodes are busy at once, each with its own pending Departure, and a
\* Departure has been processed.
C36_Witness ==
  /\ pc = "loop"
  /\ Cardinality({n \in DOMAIN nodes : nodes[n].busy}) = 2
  /\ \A n \in DOMAIN nodes : Cardinality(PendingDepartures(n)) = 1
  /\ \E n \in DOMAIN nodes : nodeStats[n].departures > 0

\* C37: job conservation.  At every event boundary every job that has
\* entered the network is in exactly one place: once in the queue of exactly
\* one node, or carried by exactly one pending Arrival, or exited (counted
\* once in processedJobs, with one sojourn time).
CountIn(seq, j) == Cardinality({i \in 1..Len(seq) : seq[i] = j})

PendingArrivalsOf(j) ==
  {e \in PendingEvents : /\ eventStack.ev[e].eventType = "arrival"
                         /\ eventStack.ev[e].jobId = j}

RECURSIVE PlacesInQueues(_, _)
PlacesInQueues(j, S) ==
  IF S = {} THEN 0
  ELSE LET n == CHOOSE x \in S : TRUE
       IN CountIn(nodes[n].queue, j) + PlacesInQueues(j, S \ {n})

Places(j) ==
  PlacesInQueues(j, DOMAIN nodes) + Cardinality(PendingArrivalsOf(j))
    + CountIn(exitOrder, j)

C37_JobConservation ==
  pc = "loop" =>
    /\ \A j \in DOMAIN firstArrival : Places(j) = 1
    /\ \A j \in 0..(jobIdCounter - 1) : Places(j) = 1
    /\ processedJobs = Len(exitOrder)
    /\ Len(totalSojournTimes) = processedJobs

\* One job has exited and another, routed on by a Departure, is carried by
\* a pending Arrival.
C37_Witness ==
  /\ pc = "loop"
  /\ processedJobs >= 1
  /\ \E j \in DOMAIN firstArrival : PendingArrivalsOf(j) # {}

\* C38: for every node, at every event boundary, arrivals - departures is the
\* length of the node's queue, and departures never exceeds arrivals.
C38_CountersMatchQueue ==
  pc \in {"loop", "done"} =>
    \A n \in DOMAIN nodes :
      /\ nodeStats[n].arrivals - nodeStats[n].departures = Len(nodes[n].queue)
      /\ nodeStats[n].departures <= nodeStats[n].arrivals

\* During warm-up a node has counted two arrivals and one departure.
C38_Witness ==
  /\ pc = "loop"
  /\ time < cfg.warmupPeriod
  /\ \E n \in DOMAIN nodes :
       /\ nodeStats[n].arrivals = 2
       /\ nodeStats[n].departures = 1
       /\ Len(nodes[n].queue) = 1

\* C39: each node serves first-come-first-served.  The order in which jobs
\* depart from a node is the order in which their Arrivals were processed at
\* the node (the jobs not yet departed wait in that order), and among the
\* Arrivals at a node with the same time stamp the one inserted into the
\* timeline first is served first.
ArrivalsProcessedAt(n) ==
  LET AtNode(e) == /\ eventStack.ev[e].eventType = "arrival"
                   /\ eventStack.ev[e].nodeId = n
  IN SelectSeq(processedEvents, AtNode)

DeparturesProcessedAt(n) ==
  LET AtNode(e) == /\ eventStack.ev[e].eventType = "departure"
                   /\ eventStack.ev[e].nodeId = n
  IN SelectSeq(processedEvents, AtNode)

JobsOf(events) == [i \in 1..Len(events) |-> eventStack.ev[events[i]].jobId]

C39_FirstComeFirstServed ==
  pc \in {"loop", "done"} =>
    \A n \in DOMAIN nodes :
      LET arrived == ArrivalsProcessedAt(n)
          departed == DeparturesProcessedAt(n)
      IN /\ Len(departed) <= Len(arrived)
         /\ JobsOf(departed) = SubSeq(JobsOf(arrived), 1, Len(departed))
         /\ nodes[n].queue = SubSeq(JobsOf(arrived), Len(departed) + 1, Len(arrived))
         /\ \A i, k \in 1..Len(arrived) :
              (i < k /\ TimeOf(arrived[i]) = TimeOf(arrived[k]))
                => arrived[i] < arrived[k]

\* Two Arrivals with the same time stamp were pending together at a node,
\* an external one and, inserted after it, one routed back by a Departure;
\* they were processed in that order and the first of the two jobs has
\* departed again.
C39_Witness ==
  /\ pc = "loop"
  /\ \E n \in DOMAIN nodes :
       LET arrived == ArrivalsProcessedAt(n) IN
       /\ Len(arrived) >= 3
       /\ TimeOf(arrived[2]) = TimeOf(arrived[3])
       /\ JobsOf(arrived)[3] = JobsOf(arrived)[1]
       /\ JobsOf(arrived)[2] # JobsOf(arrived)[1]
       /\ Len(DeparturesProcessedAt(n)) = 2

\* C40: after any interleaving of insertEvent, popEvent and
\* removeFutureEvents the doubly linked list is well formed: head is null
\* iff tail is null, head.prevEvent and tail.nextEvent are null,
\* x.nextEvent.prevEvent = x for every linked event, tail is reachable from
\* head, times along the list are non-decreasing, and after
\* removeFutureEvents(t) the list holds exactly the previously pending
\* events with time <= t.
C40_ListWellFormed ==
  LET p == Pending(eventStack) IN
  /\ LinksConsistent(eventStack)
  /\ \A i \in 1..(Len(p) - 1) :
       /\ eventStack.ev[p[i]].nextEvent = p[i + 1]
       /\ TimeOf(p[i]) <= TimeOf(p[i + 1])
  /\ \A i, k \in 1..Len(p) : i # k => p[i] # p[k]
  /\ Range(p) = pending

\* removeFutureEvents has cut the later events off a list and kept the
\* earlier ones, and an event was inserted behind them afterwards.
C40_Witness ==
  /\ op = "insert"
  /\ Len(Pending(eventStack)) = 2
  /\ Len(eventStack.ev) = 4
  /\ popHist = << >>
  /\ eventStack.tail = 4
====
